---- MODULE Spec2Model ----
(***************************************************************************)
(* A model of the voxl-mavlink-mqtt-client bridge: the MQTTClient          *)
(* connection manager (src/src/mqtt_client.cpp), the PublishTimer          *)
(* coalescing buffer (src/src/publish_timer.cpp) and the threads main()    *)
(* starts (src/src/main.cpp).                                              *)
(*                                                                         *)
(* The specifications are defined over the same variables:                 *)
(*   Spec         the control threads of the bridge as main() runs them:   *)
(*                the main/supervisor thread, the broker I/O thread, the   *)
(*                flush timer thread and the signal handler, with the      *)
(*                pipes silent;                                            *)
(*   BufferSpec   the data path: the pipe-helper callbacks and the flush   *)
(*                timer thread, with the I/O thread changing the           *)
(*                connection;                                              *)
(*   TeardownSpec the data path with the shutdown main() runs once the     *)
(*                signal handler has asked for it;                         *)
(*   SetupSpec    setup_pipes, one configured entry per step, with the     *)
(*                helper threads of the pipes it has opened;               *)
(*   ConfigSpec   load_config (src/src/config_file.cpp), one line of the   *)
(*                configuration file per step;                             *)
(*   ClientSpec   one MQTTClient object driven by an arbitrary caller of   *)
(*                its public methods, with its I/O thread;                 *)
(*   EncoderSpec  parse_pipe_data_to_json (src/src/mavlink_json.cpp)       *)
(*                applied to every pipe name and every received block.     *)
(* FairSpec and FairTeardownSpec are Spec and TeardownSpec (with fewer     *)
(* kinds of block on the pipes) with the fairness the thread scheduler     *)
(* provides; FairSignalSpec is FairSpec with signals that may also arrive  *)
(* while main() is still starting up.                                      *)
(***************************************************************************)
EXTENDS Integers, Sequences, FiniteSets, TLC

(***************************************************************************)
(* Bounds of the model.                                                    *)
(***************************************************************************)
\* distinct raw byte strings a pipe can deliver
MaxData == 2
\* the configured reconnect_delay, in seconds
ReconnectDelay == 2
\* the count of buffer_data calls between two flush passes saturates here
MaxUpdates == 2

(***************************************************************************)
(* Values.                                                                 *)
(***************************************************************************)
\* Results of the broker client library (libmosquitto).
MOSQ_ERR_SUCCESS == "MOSQ_ERR_SUCCESS"
MOSQ_ERR_CONN_LOST == "MOSQ_ERR_CONN_LOST"
MOSQ_ERR_OTHER == "MOSQ_ERR_OTHER"
MosqRc == {MOSQ_ERR_SUCCESS, MOSQ_ERR_CONN_LOST, MOSQ_ERR_OTHER}

\* Wire formats the pipe validators recognise.
Formats == {"vio", "imu", "mavlink"}

\* A buffer read from a pipe: its bytes, and the validators that accept it.
Data == [bytes : 1..MaxData, valid : SUBSET Formats]

\* std::string(data, bytes): the bytes themselves.
RawString(d) == [enc |-> "raw", of |-> d.bytes]

\* An empty std::map.
EmptyMap == [k \in {} |-> 0]

Put(m, k, v) == [x \in (DOMAIN m) \cup {k} |-> IF x = k THEN v ELSE m[x]]

Range(s) == {s[i] : i \in DOMAIN s}

Min(S) == CHOOSE x \in S : \A y \in S : x <= y

(***************************************************************************)
(* Configuration (mqtt_config_t as load_config leaves it).                 *)
(***************************************************************************)
TopicConfig(t, p, q) == [topic |-> t, pipe_name |-> p, qos |-> q]

Configs ==
  { [ publish_topics   |-> << TopicConfig("voxl/vio", "vvhub_aligned_vio", 0),
                              TopicConfig("voxl/heartbeat", "mavlink_ap_heartbeat", 1) >>,
      subscribe_topics |-> << TopicConfig("voxl/offboard_cmd", "offboard_mqtt_cmd", 0),
                              TopicConfig("voxl/setpoint", "setpoint_mqtt_cmd", 1) >>,
      reconnect_delay  |-> ReconnectDelay ] }

\* Topics a broker message can carry: the configured ones and one that no
\* entry names (a wildcard subscription delivers such topics).
MsgTopics == {"voxl/offboard_cmd", "voxl/other"}

VARIABLES
  \* ---- configuration and routing tables (main.cpp globals)
  g_config,            \* mqtt_config_t
  g_publish_pipes,     \* pipe name -> channel
  g_channel_to_topic,  \* channel -> topic
  g_subscribe_pipes,   \* pipe name -> channel
  g_topic_to_pipe,     \* topic -> pipe name
  pipes_open,          \* the pipe helper threads are running
  \* ---- MQTTClient
  m_mosq,              \* the mosquitto instance exists (initialize succeeded)
  m_connected,
  m_running,
  callbacks,           \* main's on_connect/on_disconnect/on_message are registered
  io_pc,               \* position of the thread running loop_forever
  \* ---- broker client library
  session,             \* "closed" | "pending" | "established" | "closing"
  subs,                \* topics subscribed in this session
  \* ---- PublishTimer
  m_timer_running,
  m_buffered_data,     \* channel -> BufferedData
  m_buffer_mutex,      \* "free" or the holder
  timer_pc,            \* position of the thread running timer_thread
  timer_iter,          \* keys the running flush pass has still to visit
  \* ---- main thread
  main_running,
  signalled,           \* signal_handler has run since it was installed
  main_pc,
  sleep_left,          \* seconds left of the main thread's current sleep
  exit_code,
  \* ---- load_config (the stream position and the locals)
  line_no,             \* lines read from the configuration file so far
  in_publish_section,
  in_subscribe_section,
  current_topic,       \* the record being built
  \* ---- setup_pipes (the locals of the loop that is running)
  setup_i,             \* index of the entry the loop is at (0: no loop)
  setup_ch,            \* ch, the next channel to use
  setup_opened,        \* the open of entry setup_i has succeeded
  \* ---- observations (not program state)
  ret,                 \* the latest call of a public MQTTClient method
  upd_n,               \* channel -> buffer_data calls since a flush pass last
                       \* visited the channel (saturating at MaxUpdates)
  upd_last,            \* channel -> arguments of the last buffer_data call
  last_visit,          \* what the flush loop's latest iteration found and did
  sup,                 \* seconds the supervisor has slept: since its last
                       \* connect() call, and since it found the link down
  last_connect,        \* the two sleep totals at its latest connect() call
  written,             \* pipe_server_write calls of the latest broker poll
  polled,              \* the broker message the latest poll delivered, if any
  requests,            \* subscribe calls of the latest broker poll: topic, qos,
                       \* and whether the call passed the guard of subscribe
  open_failed,         \* the configured entries whose pipe open failed in setup_pipes
  encoded,             \* the latest parse_pipe_data_to_json call and its outcome
  ignored,             \* channels without a route that have delivered data
  config_file          \* the lines of the configuration file load_config has open

routing == <<g_config, g_publish_pipes, g_channel_to_topic, g_subscribe_pipes,
             g_topic_to_pipe, pipes_open>>
client  == <<m_mosq, m_connected, m_running, callbacks, io_pc>>
broker  == <<session, subs>>
timer   == <<m_timer_running, m_buffered_data, m_buffer_mutex, timer_pc, timer_iter>>
mainth  == <<main_running, signalled, main_pc, sleep_left, exit_code>>
bufobs  == <<upd_n, upd_last, last_visit>>
supobs  == <<sup, last_connect>>
pollobs == <<written, polled, requests>>
envobs  == <<open_failed, encoded, ignored>>
startup == <<line_no, in_publish_section, in_subscribe_section, current_topic,
             setup_i, setup_ch, setup_opened, config_file>>
vars    == <<routing, client, broker, timer, mainth, ret, bufobs, supobs, pollobs, envobs,
             startup>>

(***************************************************************************)
(* Routing tables: setup_pipes.                                            *)
(***************************************************************************)
RECURSIVE SetupPublish_fixed_channels(_, _, _, _, _)
\* A publish loop in which an entry keeps its channel whether or not the
\* entries before it could be opened.
SetupPublish_fixed_channels(topics, i, ch, st, failed) ==
  IF i > Len(topics) THEN st
  ELSE IF i \in failed THEN SetupPublish_fixed_channels(topics, i + 1, ch + 1, st, failed)
  ELSE SetupPublish_fixed_channels(topics, i + 1, ch + 1,
                    [pipes |-> Put(st.pipes, topics[i].pipe_name, ch),
                     routes |-> Put(st.routes, ch, topics[i].topic)],
                    failed)

RECURSIVE SetupPublish(_, _, _, _, _)
\* The publish loop of setup_pipes from entry i on, with next channel ch;
\* failed holds the entries whose pipe_client_open fails.
SetupPublish(topics, i, ch, st, failed) ==
  IF i > Len(topics) THEN st
  ELSE IF i \in failed THEN SetupPublish(topics, i + 1, ch, st, failed)
  ELSE SetupPublish(topics, i + 1, ch + 1,
                    [pipes |-> Put(st.pipes, topics[i].pipe_name, ch),
                     routes |-> Put(st.routes, ch, topics[i].topic)],
                    failed)

RECURSIVE SetupSubscribe(_, _, _, _, _)
\* The subscribe loop of setup_pipes; failed holds the entries whose
\* pipe_server_create fails.
SetupSubscribe(topics, i, ch, st, failed) ==
  IF i > Len(topics) THEN st
  ELSE IF i \in failed THEN SetupSubscribe(topics, i + 1, ch, st, failed)
  ELSE SetupSubscribe(topics, i + 1, ch + 1,
                      [pipes |-> Put(st.pipes, topics[i].pipe_name, ch),
                       routes |-> Put(st.routes, topics[i].topic, topics[i].pipe_name)],
                      failed)

NoTables == [pipes |-> EmptyMap, routes |-> EmptyMap]

\* Channels a pipe helper can name in a data callback: one per publish entry.
ChannelIds == 0 .. 1

(***************************************************************************)
(* Encoders: mavlink_json.cpp.                                             *)
(***************************************************************************)
\* The patterns parse_pipe_data_to_json looks for in a pipe name.
Patterns == {"vvhub_aligned_vio", "imu_apps"}

\* The pipe names of the model that contain a pattern: the pattern itself,
\* its path, and two patterns joined.
NamesWith ==
  [pattern \in Patterns |->
     {pattern, "/run/mpa/" \o pattern \o "/"}
       \cup {pattern \o "_" \o other : other \in Patterns}
       \cup {other \o "_" \o pattern : other \in Patterns}]

\* pipe_name.find(pattern) != npos.
NameContains(pipe_name, pattern) == pipe_name \in NamesWith[pattern]

\* What a successful parser writes into json_output.
Json(enc, d) == [enc |-> enc, of |-> d.bytes]

\* A parse_pipe_data_to_json that tries the MAVLink parser before the
\* parsers the pipe name asks for.
parse_pipe_data_to_json_generic_first(pipe_name, d) ==
  LET vio == NameContains(pipe_name, "vvhub_aligned_vio")
      imu == NameContains(pipe_name, "imu_apps")
      t1  == <<"mavlink">>
      t2  == IF vio THEN t1 \o <<"vio">> ELSE t1
      t3  == IF imu THEN t2 \o <<"imu">> ELSE t2
  IN IF "mavlink" \in d.valid
       THEN [ok |-> TRUE, json |-> Json("mavlink", d), tried |-> t1]
     ELSE IF vio /\ "vio" \in d.valid
       THEN [ok |-> TRUE, json |-> Json("vio", d), tried |-> t2]
     ELSE IF imu /\ "imu" \in d.valid
       THEN [ok |-> TRUE, json |-> Json("imu", d), tried |-> t3]
     ELSE [ok |-> FALSE, json |-> Json("raw_json", d), tried |-> t3]

\* [ok, json_output] of parse_pipe_data_to_json, and the parsers it ran.
parse_pipe_data_to_json(pipe_name, d) ==
  LET vio == NameContains(pipe_name, "vvhub_aligned_vio")
      imu == NameContains(pipe_name, "imu_apps")
      t1  == IF vio THEN <<"vio">> ELSE << >>
      t2  == IF imu THEN t1 \o <<"imu">> ELSE t1
      t3  == t2 \o <<"mavlink">>
  IN IF vio /\ "vio" \in d.valid
       THEN [ok |-> TRUE, json |-> Json("vio", d), tried |-> t1]
     ELSE IF imu /\ "imu" \in d.valid
       THEN [ok |-> TRUE, json |-> Json("imu", d), tried |-> t2]
     ELSE IF "mavlink" \in d.valid
       THEN [ok |-> TRUE, json |-> Json("mavlink", d), tried |-> t3]
     ELSE [ok |-> FALSE, json |-> Json("raw_json", d), tried |-> t3]

\* No call of parse_pipe_data_to_json yet.
NoEncoding == [pipe_name |-> "", data |-> [bytes |-> 0, valid |-> {}],
               ok |-> FALSE, json |-> [enc |-> "none", of |-> 0], tried |-> << >>]

(***************************************************************************)
(* PublishTimer: the coalescing buffer.                                    *)
(***************************************************************************)
BufferedData(payload, topic, qos, has_data) ==
  [payload |-> payload, topic |-> topic, qos |-> qos, has_data |-> has_data]

\* A buffer_data that leaves an item that is still pending as it is.
buffer_data_keep_pending(buf, channel, topic, payload, qos) ==
  IF channel \in DOMAIN buf /\ buf[channel].has_data
  THEN buf
  ELSE Put(buf, channel, BufferedData(payload, topic, qos, TRUE))

\* m_buffered_data after buffer_data(channel, topic, payload, qos).
\* A buffer_data that replaces the whole map by the one new entry.
buffer_data_replaces_all(buf, channel, topic, payload, qos) ==
  [x \in {channel} |-> BufferedData(payload, topic, qos, TRUE)]

buffer_data(buf, channel, topic, payload, qos) ==
  Put(buf, channel, BufferedData(payload, topic, qos, TRUE))

\* m_buffered_data after clear_buffered_data().
clear_buffered_data(buf) == EmptyMap

\* A flush loop that publishes every entry it holds.
flush_wants_every_entry(buffer) == TRUE

\* The test of the flush loop on one entry: publish it or skip it.
flush_wants(buffer) == buffer.has_data

\* A flush loop that keeps an item pending until publish succeeds.
flush_reset_if_published(buffer, ok) == [buffer EXCEPT !.has_data = ~ok]

\* The entry after the flush loop has published it; ok is what publish
\* returned, which the loop does not look at.
flush_reset(buffer, ok) == [buffer EXCEPT !.has_data = FALSE]

(***************************************************************************)
(* MQTTClient: the public methods, as functions of the state they read.    *)
(* rc is the result the broker client library gives if it is called.       *)
(***************************************************************************)
Result(ok, mosq) == [ok |-> ok, mosq |-> mosq]

\* A guard that tests the handle only.
not_ready_handle_only(connected) == ~m_mosq

\* The guard of publish, subscribe and unsubscribe.
not_ready(connected) == ~m_mosq \/ ~connected

publish(connected, topic, payload, qos, rc) ==
  IF not_ready(connected) THEN Result(FALSE, "none")
  ELSE Result(rc = MOSQ_ERR_SUCCESS, "mosquitto_publish")

subscribe(connected, topic, qos, rc) ==
  IF not_ready(connected) THEN Result(FALSE, "none")
  ELSE Result(rc = MOSQ_ERR_SUCCESS, "mosquitto_subscribe")

unsubscribe(connected, topic, rc) ==
  IF not_ready(connected) THEN Result(FALSE, "none")
  ELSE Result(rc = MOSQ_ERR_SUCCESS, "mosquitto_unsubscribe")

connect(rc) ==
  IF ~m_mosq THEN Result(FALSE, "none")
  ELSE Result(rc = MOSQ_ERR_SUCCESS, "mosquitto_connect")

disconnect(rc) ==
  IF ~m_mosq THEN Result(FALSE, "none")
  ELSE Result(rc = MOSQ_ERR_SUCCESS, "mosquitto_disconnect")

is_connected == m_connected

\* A connect callback that takes every CONNACK for an acceptance.
on_connect_wrapper_any_result(result) == TRUE

\* m_connected after on_connect_wrapper(result).
on_connect_wrapper(result) == (result = 0)

\* A disconnect callback that leaves the flag as it is.
on_disconnect_wrapper_keeps_flag(result) == m_connected

\* m_connected after on_disconnect_wrapper(result).
on_disconnect_wrapper(result) == FALSE

\* The session after mosquitto_connect / mosquitto_reconnect returned rc:
\* any earlier socket is closed first, and a clean session starts.
SessionAfterConnect(rc) == IF rc = MOSQ_ERR_SUCCESS THEN "pending" ELSE "closed"

(***************************************************************************)
(* Inbound pipeline: pipe_data_callback.                                   *)
(***************************************************************************)
\* Index of the first entry of seq that satisfies P, or 0.
FirstWhere(seq, P(_)) ==
  LET I == {i \in DOMAIN seq : P(seq[i])} IN IF I = {} THEN 0 ELSE Min(I)

\* The pipe name the callback finds for channel ch ("" if none).
CallbackPipeName(ch) ==
  LET i == FirstWhere(g_config.publish_topics,
                      LAMBDA e : /\ e.pipe_name \in DOMAIN g_publish_pipes
                                 /\ g_publish_pipes[e.pipe_name] = ch)
  IN IF i = 0 THEN "" ELSE g_config.publish_topics[i].pipe_name

\* A callback that buffers what the encoder wrote, whatever it returned.
CallbackPayload_encoder_output(ch, d) ==
  parse_pipe_data_to_json(CallbackPipeName(ch), d).json

\* The payload the callback buffers for data d of channel ch.
CallbackPayload(ch, d) ==
  LET r == parse_pipe_data_to_json(CallbackPipeName(ch), d)
  IN IF r.ok THEN r.json ELSE RawString(d)

\* The QoS the callback finds for a topic (0 if no entry has the topic).
CallbackQos(topic) ==
  LET i == FirstWhere(g_config.publish_topics, LAMBDA e : e.topic = topic)
  IN IF i = 0 THEN 0 ELSE g_config.publish_topics[i].qos

\* The arguments pipe_data_callback hands to buffer_data.
\* Callback arguments whose topic is that of the first configured publish
\* route, whatever the channel.
CallbackArgs_first_topic(ch, d) ==
  [topic   |-> g_config.publish_topics[1].topic,
   payload |-> CallbackPayload(ch, d),
   qos     |-> CallbackQos(g_channel_to_topic[ch])]

CallbackArgs(ch, d) ==
  [topic   |-> g_channel_to_topic[ch],
   payload |-> CallbackPayload(ch, d),
   qos     |-> CallbackQos(g_channel_to_topic[ch])]

\* A pipe_data_callback that buffers data of a channel without a route
\* under an empty topic.
pipe_data_callback_any_channel(buf, ch, d) ==
  IF ch \in DOMAIN g_channel_to_topic
  THEN LET a == CallbackArgs(ch, d)
       IN buffer_data(buf, ch, a.topic, a.payload, a.qos)
  ELSE buffer_data(buf, ch, "", RawString(d), 0)

\* m_buffered_data after pipe_data_callback(ch, d).
pipe_data_callback(buf, ch, d) ==
  IF ch \in DOMAIN g_channel_to_topic
  THEN LET a == CallbackArgs(ch, d)
       IN buffer_data(buf, ch, a.topic, a.payload, a.qos)
  ELSE buf

NoArgs == [topic |-> "", payload |-> [enc |-> "none", of |-> 0], qos |-> 0]

\* An iteration of the flush loop: the channel ch it visited, the number n
\* of buffer_data calls for ch since the previous visit, whether it called
\* publish, with which arguments, and what publish did.
Visit(ch, n, called, topic, payload, qos, r) ==
  [ch |-> ch, n |-> n, called |-> called, topic |-> topic, payload |-> payload,
   qos |-> qos, ok |-> r.ok, mosq |-> r.mosq]

NoVisit == Visit(-1, 0, FALSE, NoArgs.topic, NoArgs.payload, NoArgs.qos,
                 [ok |-> FALSE, mosq |-> "none"])

\* A callback whose buffer_data does not take the buffer lock.
PipeData_unlocked(ch, d) ==
  /\ pipes_open
  /\ m_buffered_data' = pipe_data_callback(m_buffered_data, ch, d)
  /\ IF ch \in DOMAIN g_channel_to_topic
     THEN /\ upd_n' = [upd_n EXCEPT ![ch] = IF @ < MaxUpdates THEN @ + 1 ELSE @]
          /\ upd_last' = [upd_last EXCEPT ![ch] = CallbackArgs(ch, d)]
          /\ UNCHANGED ignored
     ELSE /\ ignored' = ignored \cup {ch}
          /\ UNCHANGED <<upd_n, upd_last>>
  /\ UNCHANGED <<routing, client, broker, mainth, ret, supobs, pollobs, open_failed, startup,
                 encoded, m_timer_running, m_buffer_mutex, timer_pc, timer_iter,
                 last_visit>>

\* A callback that hands its data to publish as soon as it has buffered it.
PipeData_publishes(ch, d) ==
  /\ pipes_open
  /\ ch \in DOMAIN g_channel_to_topic => m_buffer_mutex = "free"
  /\ m_buffered_data' = pipe_data_callback(m_buffered_data, ch, d)
  /\ IF ch \in DOMAIN g_channel_to_topic
     THEN /\ upd_n' = [upd_n EXCEPT ![ch] = IF @ < MaxUpdates THEN @ + 1 ELSE @]
          /\ upd_last' = [upd_last EXCEPT ![ch] = CallbackArgs(ch, d)]
          /\ \E rc \in MosqRc :
               LET a == CallbackArgs(ch, d)
               IN last_visit' = Visit(ch, upd_n[ch], TRUE, a.topic, a.payload, a.qos,
                                      publish(m_connected, a.topic, a.payload, a.qos, rc))
          /\ UNCHANGED ignored
     ELSE /\ ignored' = ignored \cup {ch}
          /\ UNCHANGED <<upd_n, upd_last, last_visit>>
  /\ UNCHANGED <<routing, client, broker, mainth, ret, supobs, pollobs, open_failed, startup,
                 encoded, m_timer_running, m_buffer_mutex, timer_pc, timer_iter>>

\* A pipe helper thread delivers data d on channel ch.
PipeData(ch, d) ==
  /\ pipes_open
  /\ ch \in DOMAIN g_channel_to_topic => m_buffer_mutex = "free"
  /\ m_buffered_data' = pipe_data_callback(m_buffered_data, ch, d)
  /\ IF ch \in DOMAIN g_channel_to_topic
     THEN /\ upd_n' = [upd_n EXCEPT ![ch] = IF @ < MaxUpdates THEN @ + 1 ELSE @]
          /\ upd_last' = [upd_last EXCEPT ![ch] = CallbackArgs(ch, d)]
          /\ UNCHANGED ignored
     ELSE /\ ignored' = ignored \cup {ch}
          /\ UNCHANGED <<upd_n, upd_last>>
  /\ UNCHANGED <<routing, client, broker, mainth, ret, supobs, pollobs, open_failed, startup,
                 encoded, m_timer_running, m_buffer_mutex, timer_pc, timer_iter,
                 last_visit>>

(***************************************************************************)
(* Flush timer thread: PublishTimer::timer_thread.                         *)
(***************************************************************************)
\* A timer that begins a pass only when no callback has stored data since
\* the last one: it gives way to the callbacks.
TimerWake_gives_way ==
  /\ timer_pc = "sleep"
  /\ IF ~m_timer_running
     THEN /\ timer_pc' = "done"
          /\ UNCHANGED <<m_buffer_mutex, timer_iter, bufobs>>
     ELSE /\ m_buffer_mutex = "free"
          /\ \A ch \in ChannelIds : upd_n[ch] = 0
          /\ m_buffer_mutex' = "timer"
          /\ timer_pc' = "pass"
          /\ timer_iter' = DOMAIN m_buffered_data
          /\ last_visit' = NoVisit
          /\ UNCHANGED <<upd_n, upd_last>>
  /\ UNCHANGED <<routing, client, broker, mainth, ret, supobs, pollobs, envobs, startup,
                 m_timer_running, m_buffered_data>>

\* sleep_for returns: leave if stopped, else take the lock and begin a pass.
TimerWake ==
  /\ timer_pc = "sleep"
  /\ IF ~m_timer_running
     THEN /\ timer_pc' = "done"
          /\ UNCHANGED <<m_buffer_mutex, timer_iter, bufobs>>
     ELSE /\ m_buffer_mutex = "free"
          /\ m_buffer_mutex' = "timer"
          /\ timer_pc' = "pass"
          /\ timer_iter' = DOMAIN m_buffered_data
          /\ last_visit' = NoVisit
          /\ UNCHANGED <<upd_n, upd_last>>
  /\ UNCHANGED <<routing, client, broker, mainth, ret, supobs, pollobs, envobs, startup,
                 m_timer_running, m_buffered_data>>

\* One iteration of the for loop: the next entry in key order.
TimerFlushEntry ==
  /\ timer_pc = "pass"
  /\ timer_iter # {}
  /\ LET c == Min(timer_iter)
         buffer == m_buffered_data[c]
     IN /\ timer_iter' = timer_iter \ {c}
        /\ upd_n' = [upd_n EXCEPT ![c] = 0]
        /\ IF flush_wants(buffer)
           THEN \E rc \in MosqRc :
                  LET r == publish(m_connected, buffer.topic, buffer.payload, buffer.qos, rc)
                  IN /\ last_visit' = Visit(c, upd_n[c], TRUE, buffer.topic,
                                            buffer.payload, buffer.qos, r)
                     /\ m_buffered_data' = [m_buffered_data EXCEPT ![c] = flush_reset(buffer, r.ok)]
           ELSE /\ last_visit' = Visit(c, upd_n[c], FALSE, NoArgs.topic, NoArgs.payload,
                                       NoArgs.qos, [ok |-> FALSE, mosq |-> "none"])
                /\ UNCHANGED m_buffered_data
  /\ UNCHANGED <<routing, client, broker, mainth, ret, supobs, pollobs, envobs, startup,
                 m_timer_running, m_buffer_mutex, timer_pc, upd_last>>

\* A pass that ends without releasing the buffer lock.
TimerPassEnd_keeps_lock ==
  /\ timer_pc = "pass"
  /\ timer_iter = {}
  /\ timer_pc' = IF m_timer_running THEN "sleep" ELSE "done"
  /\ last_visit' = NoVisit
  /\ UNCHANGED <<routing, client, broker, mainth, ret, supobs, pollobs, envobs, startup,
                 m_timer_running, m_buffered_data, m_buffer_mutex, timer_iter, upd_n,
                 upd_last>>

\* The for loop ends: the lock_guard releases, and the while test runs.
TimerPassEnd ==
  /\ timer_pc = "pass"
  /\ timer_iter = {}
  /\ m_buffer_mutex' = "free"
  /\ timer_pc' = IF m_timer_running THEN "sleep" ELSE "done"
  /\ last_visit' = NoVisit
  /\ UNCHANGED <<routing, client, broker, mainth, ret, supobs, pollobs, envobs, startup,
                 m_timer_running, m_buffered_data, timer_iter, upd_n, upd_last>>

TimerThread == TimerWake \/ TimerFlushEntry \/ TimerPassEnd

(***************************************************************************)
(* main's broker callbacks.                                                *)
(***************************************************************************)
\* The topics on_mqtt_connect(result) gets subscribed, when the library
\* answers rcs[i] to the request for the i-th configured topic.
on_mqtt_connect(connected, result, rcs) ==
  IF result = 0
  THEN {g_config.subscribe_topics[i].topic :
          i \in {j \in DOMAIN g_config.subscribe_topics :
                   subscribe(connected, g_config.subscribe_topics[j].topic,
                             g_config.subscribe_topics[j].qos, rcs[j]).ok}}
  ELSE {}

\* An on_mqtt_message that writes a message without a route to channel 0.
on_mqtt_message_default_channel(topic, payload) ==
  IF topic \in DOMAIN g_topic_to_pipe /\ g_topic_to_pipe[topic] \in DOMAIN g_subscribe_pipes
  THEN << [ch |-> g_subscribe_pipes[g_topic_to_pipe[topic]], payload |-> payload] >>
  ELSE << [ch |-> 0, payload |-> payload] >>

\* The pipe_server_write calls of on_mqtt_message(topic, payload).
on_mqtt_message(topic, payload) ==
  IF topic \in DOMAIN g_topic_to_pipe
  THEN LET pipe_name == g_topic_to_pipe[topic]
       IN IF pipe_name \in DOMAIN g_subscribe_pipes
          THEN << [ch |-> g_subscribe_pipes[pipe_name], payload |-> payload] >>
          ELSE << >>
  ELSE << >>

\* A broker message: its topic and payload; payload 0 is the empty payload,
\* which the library delivers as a null pointer of length 0.
Messages == [topic : MsgTopics, payload : 0..MaxData]

NoMessage == [topic |-> "", payload |-> 0]

\* The pipe_server_write calls of on_message_wrapper(message).
on_message_wrapper(message) ==
  IF callbacks /\ message.payload # 0
  THEN on_mqtt_message(message.topic, message.payload)
  ELSE << >>

(***************************************************************************)
(* Broker I/O thread: MQTTClient::loop_forever.                            *)
(***************************************************************************)
\* Where the loop body goes after mosquitto_loop returned rc.
loop_next(rc) ==
  IF rc = MOSQ_ERR_SUCCESS THEN "loop"
  ELSE IF rc = MOSQ_ERR_CONN_LOST THEN "sleep"
  ELSE "done"

Polling == io_pc = "loop" /\ m_running

\* mosquitto_loop finds nothing to do.
IoPollIdle ==
  /\ Polling
  /\ session \in {"pending", "established"}
  /\ written' = << >>
  /\ polled' = NoMessage
  /\ requests' = {}
  /\ UNCHANGED <<envobs, startup>>
  /\ UNCHANGED <<routing, client, broker, timer, mainth, ret, bufobs, supobs>>

\* A connect callback wrapper that calls on_mqtt_connect before it stores
\* the flag.
IoPollConnack_callback_first(result, rcs, disc) ==
  /\ Polling
  /\ session = "pending"
  /\ LET c == on_connect_wrapper(result)
     IN /\ IF result = 0
           THEN /\ m_connected' = c
                /\ session' = "established"
                /\ subs' = IF callbacks THEN on_mqtt_connect(m_connected, result, rcs)
                           ELSE subs
                /\ io_pc' = loop_next(MOSQ_ERR_SUCCESS)
           ELSE /\ m_connected' = IF disc THEN on_disconnect_wrapper(result) ELSE c
                /\ session' = "closed"
                /\ subs' = {}
                /\ io_pc' = loop_next(MOSQ_ERR_OTHER)
        /\ requests' =
             IF callbacks /\ result = 0
             THEN {[topic |-> e.topic, qos |-> e.qos,
                    passed |-> ~not_ready(m_connected)] :
                     e \in Range(g_config.subscribe_topics)}
             ELSE {}
  /\ written' = << >>
  /\ polled' = NoMessage
  /\ UNCHANGED <<envobs, startup>>
  /\ UNCHANGED <<routing, m_mosq, m_running, callbacks, timer, mainth, ret, bufobs, supobs>>

\* mosquitto_loop reads the CONNACK and calls the connect callback.  A
\* refused connection closes the socket, may be reported by the disconnect
\* callback too, and ends the poll with an error.
IoPollConnack(result, rcs, disc) ==
  /\ Polling
  /\ session = "pending"
  /\ LET c == on_connect_wrapper(result)
     IN /\ IF result = 0
           THEN /\ m_connected' = c
                /\ session' = "established"
                /\ subs' = IF callbacks THEN on_mqtt_connect(c, result, rcs) ELSE subs
                /\ io_pc' = loop_next(MOSQ_ERR_SUCCESS)
           ELSE /\ m_connected' = IF disc THEN on_disconnect_wrapper(result) ELSE c
                /\ session' = "closed"
                /\ subs' = {}
                /\ io_pc' = loop_next(MOSQ_ERR_OTHER)
        /\ requests' =
             IF callbacks /\ result = 0
             THEN {[topic |-> e.topic, qos |-> e.qos, passed |-> ~not_ready(c)] :
                     e \in Range(g_config.subscribe_topics)}
             ELSE {}
  /\ written' = << >>
  /\ polled' = NoMessage
  /\ UNCHANGED <<envobs, startup>>
  /\ UNCHANGED <<routing, m_mosq, m_running, callbacks, timer, mainth, ret, bufobs, supobs>>

\* mosquitto_loop reads a PUBLISH and calls the message callback.
IoPollMessage(message) ==
  /\ Polling
  /\ session = "established"
  /\ written' = on_message_wrapper(message)
  /\ polled' = message
  /\ requests' = {}
  /\ UNCHANGED <<envobs, startup>>
  /\ UNCHANGED <<routing, client, broker, timer, mainth, ret, bufobs, supobs>>

\* mosquitto_loop finds the connection broken: the disconnect callback runs
\* and the poll returns rc.
IoPollLost(rc) ==
  /\ Polling
  /\ session \in {"pending", "established"}
  /\ rc # MOSQ_ERR_SUCCESS
  /\ m_connected' = on_disconnect_wrapper(1)
  /\ session' = "closed"
  /\ subs' = {}
  /\ io_pc' = loop_next(rc)
  /\ written' = << >>
  /\ polled' = NoMessage
  /\ requests' = {}
  /\ UNCHANGED <<envobs, startup>>
  /\ UNCHANGED <<routing, m_mosq, m_running, callbacks, timer, mainth, ret, bufobs, supobs>>

\* mosquitto_loop completes a disconnect the client asked for.
IoPollDisconnected(rc) ==
  /\ Polling
  /\ session = "closing"
  /\ m_connected' = on_disconnect_wrapper(0)
  /\ session' = "closed"
  /\ subs' = {}
  /\ io_pc' = loop_next(rc)
  /\ written' = << >>
  /\ polled' = NoMessage
  /\ requests' = {}
  /\ UNCHANGED <<envobs, startup>>
  /\ UNCHANGED <<routing, m_mosq, m_running, callbacks, timer, mainth, ret, bufobs, supobs>>

\* mosquitto_loop has no socket: it returns MOSQ_ERR_NO_CONN.
IoPollNoConn ==
  /\ Polling
  /\ session = "closed"
  /\ io_pc' = loop_next(MOSQ_ERR_OTHER)
  /\ written' = << >>
  /\ polled' = NoMessage
  /\ requests' = {}
  /\ UNCHANGED <<envobs, startup>>
  /\ UNCHANGED <<routing, m_mosq, m_connected, m_running, callbacks, broker, timer,
                 mainth, ret, bufobs, supobs>>

\* After MOSQ_ERR_CONN_LOST: sleep(reconnect_delay), then mosquitto_reconnect.
IoReconnect(rc) ==
  /\ io_pc = "sleep"
  /\ session' = SessionAfterConnect(rc)
  /\ subs' = {}
  /\ io_pc' = "loop"
  /\ UNCHANGED <<routing, m_mosq, m_connected, m_running, callbacks, timer, mainth,
                 ret, bufobs, supobs, pollobs, envobs, startup>>

\* The while test fails: loop_forever returns.
IoExit ==
  /\ io_pc = "loop"
  /\ ~m_running
  /\ io_pc' = "done"
  /\ UNCHANGED <<routing, m_mosq, m_connected, m_running, callbacks, broker, timer,
                 mainth, ret, bufobs, supobs, pollobs, envobs, startup>>

ConnackCodes == {0, 5}

\* The steps of the I/O thread that change the connection.
IoLink ==
  \/ \E result \in ConnackCodes, disc \in BOOLEAN :
       \E rcs \in [DOMAIN g_config.subscribe_topics -> MosqRc] :
         IoPollConnack(result, rcs, disc)
  \/ \E rc \in MosqRc : IoPollLost(rc)
  \/ IoPollNoConn
  \/ \E rc \in MosqRc : IoReconnect(rc)

\* The I/O thread of the bridge, which never calls disconnect().
IoThread ==
  \/ IoLink
  \/ IoPollIdle
  \/ \E message \in Messages : IoPollMessage(message)
  \/ IoExit

(***************************************************************************)
(* Main thread: main() from the initial connect on.                        *)
(***************************************************************************)
\* sleep_for(seconds(1)) of the supervisor loop.
poll_sleep == 1

\* A delay that doubles the configured one.
reconnect_sleep_doubled == 2 * g_config.reconnect_delay

\* sleep_for(seconds(g_config.reconnect_delay)) before connect().
reconnect_sleep == g_config.reconnect_delay

NoSleep == [since_connect |-> -1, since_down |-> -1]

\* One second of the main thread's current sleep passes.
MainTick ==
  /\ sleep_left > 0
  /\ sleep_left' = sleep_left - 1
  /\ sup' = [since_connect |-> IF sup.since_connect >= 0 THEN sup.since_connect + 1 ELSE -1,
             since_down    |-> IF sup.since_down >= 0 THEN sup.since_down + 1 ELSE -1]
  /\ UNCHANGED <<routing, client, broker, timer, main_running, signalled, main_pc, exit_code,
                 ret, bufobs, last_connect, pollobs, envobs, startup>>

\* The initial connect(); on failure main cleans up and returns -1.
MainConnect0(rc) ==
  /\ main_pc = "connect0"
  /\ LET r == connect(rc)
     IN /\ IF r.mosq = "none" THEN UNCHANGED broker
           ELSE session' = SessionAfterConnect(rc) /\ subs' = {}
        /\ IF r.ok THEN main_pc' = "start" /\ UNCHANGED exit_code
           ELSE main_pc' = "stop_timer" /\ exit_code' = -1
  /\ sup' = [since_connect |-> 0, since_down |-> -1]
  /\ UNCHANGED <<routing, client, timer, main_running, signalled, sleep_left, ret, bufobs,
                 last_connect, pollobs, envobs, startup>>

\* run(), g_publish_timer->start(), main_running = 1.
MainStart ==
  /\ main_pc = "start"
  /\ m_running' = TRUE
  /\ io_pc' = "loop"
  /\ m_timer_running' = TRUE
  /\ timer_pc' = "sleep"
  /\ main_running' = 1
  /\ main_pc' = "top"
  /\ UNCHANGED <<routing, m_mosq, m_connected, callbacks, broker, m_buffered_data,
                 m_buffer_mutex, timer_iter, signalled, sleep_left, exit_code, ret, bufobs,
                 supobs, pollobs, envobs, startup>>

\* while (main_running): enter the body and sleep, or leave the loop.
SupTop ==
  /\ main_pc = "top"
  /\ IF main_running # 0
     THEN main_pc' = "sleep1" /\ sleep_left' = poll_sleep
     ELSE main_pc' = "stop" /\ UNCHANGED sleep_left
  /\ UNCHANGED <<routing, client, broker, timer, main_running, signalled, exit_code, ret,
                 bufobs, supobs, pollobs, envobs, startup>>

\* A supervisor that notes the connection is down and does nothing about it.
SupCheckNoRetry ==
  /\ main_pc = "sleep1"
  /\ sleep_left = 0
  /\ main_pc' = "top"
  /\ sup' = NoSleep
  /\ UNCHANGED <<routing, client, broker, timer, main_running, signalled, sleep_left, exit_code,
                 ret, bufobs, last_connect, pollobs, envobs, startup>>

\* The one-second sleep is over: test is_connected().
SupCheck ==
  /\ main_pc = "sleep1"
  /\ sleep_left = 0
  /\ IF ~is_connected
     THEN /\ main_pc' = "sleepd"
          /\ sleep_left' = reconnect_sleep
          /\ sup' = [sup EXCEPT !.since_down = 0]
     ELSE /\ main_pc' = "top"
          /\ sup' = NoSleep
          /\ UNCHANGED sleep_left
  /\ UNCHANGED <<routing, client, broker, timer, main_running, signalled, exit_code, ret,
                 bufobs, last_connect, pollobs, envobs, startup>>

\* The reconnect delay is over: connect().
SupConnect(rc) ==
  /\ main_pc = "sleepd"
  /\ sleep_left = 0
  /\ LET r == connect(rc)
     IN IF r.mosq = "none" THEN UNCHANGED broker
        ELSE session' = SessionAfterConnect(rc) /\ subs' = {}
  /\ last_connect' = sup
  /\ sup' = [since_connect |-> 0, since_down |-> -1]
  /\ main_pc' = "top"
  /\ UNCHANGED <<routing, client, timer, main_running, signalled, sleep_left, exit_code, ret,
                 bufobs, pollobs, envobs, startup>>

\* g_mqtt_client->stop(): clear m_running, then join the I/O thread.
MainStop ==
  /\ main_pc = "stop"
  /\ m_running' = FALSE
  /\ main_pc' = IF io_pc = "idle" THEN "stop_timer" ELSE "join_io"
  /\ UNCHANGED <<routing, m_mosq, m_connected, callbacks, io_pc, broker, timer,
                 main_running, signalled, sleep_left, exit_code, ret, bufobs, supobs,
                 pollobs, envobs, startup>>

MainJoinIo ==
  /\ main_pc = "join_io"
  /\ io_pc = "done"
  /\ io_pc' = "idle"
  /\ main_pc' = "stop_timer"
  /\ UNCHANGED <<routing, m_mosq, m_connected, m_running, callbacks, broker, timer,
                 main_running, signalled, sleep_left, exit_code, ret, bufobs, supobs,
                 pollobs, envobs, startup>>

\* A stop() of the timer that clears the flag and does not join the thread.
MainStopTimerNoJoin ==
  /\ main_pc = "stop_timer"
  /\ m_timer_running' = FALSE
  /\ main_pc' = "close_pub"
  /\ UNCHANGED <<routing, client, broker, m_buffered_data, m_buffer_mutex, timer_pc,
                 timer_iter, main_running, signalled, sleep_left, exit_code, ret, bufobs,
                 supobs, pollobs, envobs, startup>>

\* cleanup_pipes: g_publish_timer->stop().
MainStopTimer ==
  /\ main_pc = "stop_timer"
  /\ IF m_timer_running
     THEN m_timer_running' = FALSE /\ main_pc' = "join_timer"
     ELSE main_pc' = "close_pub" /\ UNCHANGED m_timer_running
  /\ UNCHANGED <<routing, client, broker, m_buffered_data, m_buffer_mutex, timer_pc,
                 timer_iter, main_running, signalled, sleep_left, exit_code, ret, bufobs,
                 supobs, pollobs, envobs, startup>>

\* A join of the timer thread that returns while the thread still runs.
MainJoinTimer_no_wait ==
  /\ main_pc = "join_timer"
  /\ main_pc' = "close_pub"
  /\ UNCHANGED <<routing, client, broker, timer, main_running, signalled, sleep_left, exit_code,
                 ret, bufobs, supobs, pollobs, envobs, startup>>

MainJoinTimer ==
  /\ main_pc = "join_timer"
  /\ timer_pc = "done"
  /\ timer_pc' = "idle"
  /\ main_pc' = "close_pub"
  /\ UNCHANGED <<routing, client, broker, m_timer_running, m_buffered_data,
                 m_buffer_mutex, timer_iter, main_running, signalled, sleep_left, exit_code,
                 ret, bufobs, supobs, pollobs, envobs, startup>>

\* cleanup_pipes: close the client pipes, clear the publish tables and the buffer.
MainClosePub ==
  /\ main_pc = "close_pub"
  /\ m_buffer_mutex = "free"
  /\ pipes_open' = FALSE
  /\ g_publish_pipes' = EmptyMap
  /\ g_channel_to_topic' = EmptyMap
  /\ m_buffered_data' = clear_buffered_data(m_buffered_data)
  /\ main_pc' = "close_sub"
  /\ UNCHANGED <<g_config, g_subscribe_pipes, g_topic_to_pipe, client, broker,
                 m_timer_running, m_buffer_mutex, timer_pc, timer_iter, main_running, signalled,
                 sleep_left, exit_code, ret, bufobs, supobs, pollobs, envobs, startup>>

\* cleanup_pipes: close the server pipes, clear the subscribe tables.
MainCloseSub ==
  /\ main_pc = "close_sub"
  /\ g_subscribe_pipes' = EmptyMap
  /\ g_topic_to_pipe' = EmptyMap
  /\ main_pc' = "delete"
  /\ UNCHANGED <<g_config, g_publish_pipes, g_channel_to_topic, pipes_open, client,
                 broker, timer, main_running, signalled, sleep_left, exit_code, ret, bufobs,
                 supobs, pollobs, envobs, startup>>

\* delete g_mqtt_client: stop() and mosquitto_destroy; main returns.
MainDelete ==
  /\ main_pc = "delete"
  /\ m_running' = FALSE
  /\ m_mosq' = FALSE
  /\ session' = "closed"
  /\ subs' = {}
  /\ main_pc' = "exited"
  /\ UNCHANGED <<routing, m_connected, callbacks, io_pc, timer, main_running, signalled,
                 sleep_left, exit_code, ret, bufobs, supobs, pollobs, envobs, startup>>

\* signal_handler: SIGINT or SIGTERM.
Signal ==
  /\ main_running # 0
  /\ main_running' = 0
  /\ signalled' = TRUE
  /\ UNCHANGED <<routing, client, broker, timer, main_pc, sleep_left, exit_code,
                 ret, bufobs, supobs, pollobs, envobs, startup>>

Supervisor == SupTop \/ SupCheck \/ (\E rc \in MosqRc : SupConnect(rc))

\* SIGINT or SIGTERM delivered after the handlers are installed and before
\* main has set main_running to 1: the handler stores 0 into a flag that
\* is still 0.
SignalEarly ==
  /\ main_pc \in {"connect0", "start"}
  /\ main_running' = 0
  /\ signalled' = TRUE
  /\ UNCHANGED <<routing, client, broker, timer, main_pc, sleep_left, exit_code,
                 ret, bufobs, supobs, pollobs, envobs, startup>>

MainThread ==
  \/ MainTick
  \/ \E rc \in MosqRc : MainConnect0(rc)
  \/ MainStart
  \/ Supervisor
  \/ MainStop
  \/ MainJoinIo
  \/ MainStopTimer
  \/ MainJoinTimer
  \/ MainClosePub
  \/ MainCloseSub
  \/ MainDelete

(***************************************************************************)
(* The bridge.                                                             *)
(***************************************************************************)
NoCall == [op |-> "none", ok |-> FALSE, mosq |-> "none"]

\* A setup_pipes that gives up all routes when an open fails.
SetupPipes_all_or_nothing(cfg, pub_failed, sub_failed) ==
  LET P == IF pub_failed = {}
           THEN SetupPublish(cfg.publish_topics, 1, 0, NoTables, {})
           ELSE NoTables
      S == IF sub_failed = {}
           THEN SetupSubscribe(cfg.subscribe_topics, 1, 0, NoTables, {})
           ELSE NoTables
  IN /\ g_config = cfg
     /\ g_publish_pipes = P.pipes
     /\ g_channel_to_topic = P.routes
     /\ g_subscribe_pipes = S.pipes
     /\ g_topic_to_pipe = S.routes
     /\ pipes_open = TRUE
     /\ open_failed = [pub |-> pub_failed, sub |-> sub_failed]

\* The routing tables setup_pipes builds from cfg when the pipe opens of
\* pub_failed and sub_failed fail.
SetupPipes(cfg, pub_failed, sub_failed) ==
  LET P == SetupPublish(cfg.publish_topics, 1, 0, NoTables, pub_failed)
      S == SetupSubscribe(cfg.subscribe_topics, 1, 0, NoTables, sub_failed)
  IN /\ g_config = cfg
     /\ g_publish_pipes = P.pipes
     /\ g_channel_to_topic = P.routes
     /\ g_subscribe_pipes = S.pipes
     /\ g_topic_to_pipe = S.routes
     /\ pipes_open = TRUE
     /\ open_failed = [pub |-> pub_failed, sub |-> sub_failed]

\* No record is being built and no field has been given.
NoTopic == [topic |-> "", pipe_name |-> "", qos |-> 0]

\* load_config and setup_pipes have returned: the stream is closed and
\* their locals are gone.
StartupDone ==
  /\ line_no = 0
  /\ in_publish_section = FALSE
  /\ in_subscribe_section = FALSE
  /\ current_topic = NoTopic
  /\ config_file = <<>>
  /\ setup_i = 0
  /\ setup_ch = 0
  /\ setup_opened = FALSE

\* The objects as their constructors leave them, and nothing observed yet.
Constructed ==
  /\ m_connected = FALSE
  /\ subs = {}
  /\ m_buffered_data = EmptyMap
  /\ m_buffer_mutex = "free"
  /\ timer_iter = {}
  /\ sleep_left = 0
  /\ exit_code = 0
  /\ signalled = FALSE
  /\ ret = NoCall
  /\ upd_n = [c \in ChannelIds |-> 0]
  /\ upd_last = [c \in ChannelIds |-> NoArgs]
  /\ last_visit = NoVisit
  /\ last_connect = NoSleep
  /\ written = << >>
  /\ polled = NoMessage
  /\ requests = {}
  /\ encoded = NoEncoding
  /\ ignored = {}

\* The state main() reaches before its initial connect(): the configuration
\* loaded, the client initialised, the callbacks registered, setup_pipes done.
Init ==
  /\ \E cfg \in Configs :
       \E pub_failed \in SUBSET DOMAIN cfg.publish_topics,
          sub_failed \in SUBSET DOMAIN cfg.subscribe_topics :
         SetupPipes(cfg, pub_failed, sub_failed)
  /\ Constructed
  /\ StartupDone
  /\ m_mosq = TRUE
  /\ callbacks = TRUE
  /\ m_running = FALSE
  /\ io_pc = "idle"
  /\ session = "closed"
  /\ m_timer_running = FALSE
  /\ timer_pc = "idle"
  /\ main_running = 0
  /\ main_pc = "connect0"
  /\ sup = NoSleep

\* The control threads of the bridge: the main thread, the I/O thread, the
\* timer thread and the signal handler, while the pipes are silent (every
\* flush pass finds the buffer empty).
Next == MainThread \/ IoThread \/ TimerWake \/ TimerPassEnd \/ Signal

Spec == Init /\ [][Next]_vars

\* The scheduler lets every thread that can take a step take one.
FairSpec ==
  /\ Spec
  /\ WF_vars(MainThread)
  /\ WF_vars(IoThread)
  /\ WF_vars(TimerWake \/ TimerPassEnd)

\* The same threads under the same scheduling, with signals that may also
\* arrive while main is still starting up.
FairSignalSpec ==
  /\ Init
  /\ [][Next \/ SignalEarly]_vars
  /\ WF_vars(MainThread)
  /\ WF_vars(IoThread)
  /\ WF_vars(TimerWake \/ TimerPassEnd)

(***************************************************************************)
(* The data path: the pipe helper threads and the flush timer, with the    *)
(* I/O thread making and losing the connection, from the state main()      *)
(* reaches when it has started its threads.  The main thread sleeps.  Any  *)
(* of the publish pipes may have failed to open; the subscribe pipes,      *)
(* which play no part in the data path, are all open.                      *)
(***************************************************************************)
BufferInit ==
  /\ \E cfg \in Configs :
       \E pub_failed \in SUBSET DOMAIN cfg.publish_topics :
         SetupPipes(cfg, pub_failed, {})
  /\ Constructed
  /\ StartupDone
  /\ m_mosq = TRUE
  /\ callbacks = TRUE
  /\ m_running = TRUE
  /\ io_pc = "loop"
  /\ session = "pending"
  /\ m_timer_running = TRUE
  /\ timer_pc = "sleep"
  /\ main_running = 1
  /\ main_pc = "top"
  /\ sup = [since_connect |-> 0, since_down |-> -1]

PipeThreads == \E ch \in ChannelIds, d \in Data : PipeData(ch, d)

BufferNext == TimerThread \/ PipeThreads \/ IoLink

BufferSpec == BufferInit /\ [][BufferNext]_vars

(***************************************************************************)
(* The data path through shutdown: the threads of BufferSpec, and the main *)
(* thread from the moment a signal makes it leave the supervisor loop:     *)
(* stop(), cleanup_pipes(), the destructors.  Until then the main thread   *)
(* sleeps.                                                                 *)
(***************************************************************************)
\* while (main_running) fails: the supervisor loop is left.
SupLeave == main_running = 0 /\ SupTop

MainShutdown ==
  \/ SupLeave
  \/ MainStop
  \/ MainJoinIo
  \/ MainStopTimer
  \/ MainJoinTimer
  \/ MainClosePub
  \/ MainCloseSub
  \/ MainDelete

TeardownNext ==
  TimerThread \/ PipeThreads \/ IoLink \/ IoExit \/ Signal \/ MainShutdown

TeardownSpec == BufferInit /\ [][TeardownNext]_vars

\* The pipes deliver blocks that every validator accepts: the locks a
\* callback takes do not depend on the block.
PlainPipeThreads ==
  \E ch \in ChannelIds, d \in Data : d.valid = Formats /\ PipeData(ch, d)

\* The data path and the shutdown with such blocks.  The scheduler lets the
\* main thread, the I/O thread and the timer thread take the steps they can
\* take; the pipes deliver data or not.
FairTeardownSpec ==
  /\ BufferInit
  /\ [][TimerThread \/ PlainPipeThreads \/ IoLink \/ IoExit \/ Signal \/ MainShutdown]_vars
  /\ WF_vars(MainShutdown)
  /\ WF_vars(IoLink \/ IoExit)
  /\ WF_vars(TimerThread)

(***************************************************************************)
(* setup_pipes step by step, with the pipe helper threads that             *)
(* pipe_client_open starts: a helper can call pipe_data_callback for its   *)
(* channel from the moment the open has succeeded.  The I/O thread and the *)
(* timer thread are not started yet.                                       *)
(***************************************************************************)
\* Publish and subscribe lists: the usual ones, and lists that repeat a
\* pipe name or a topic.
PublishLists ==
  { << TopicConfig("voxl/vio", "vvhub_aligned_vio", 0),
       TopicConfig("voxl/heartbeat", "mavlink_ap_heartbeat", 1) >>,
    << TopicConfig("voxl/vio", "vvhub_aligned_vio", 0),
       TopicConfig("voxl/vio_copy", "vvhub_aligned_vio", 1) >>,
    << TopicConfig("voxl/vio", "vvhub_aligned_vio", 0),
       TopicConfig("voxl/vio", "mavlink_ap_heartbeat", 1) >> }

SubscribeLists ==
  { << TopicConfig("voxl/offboard_cmd", "offboard_mqtt_cmd", 0),
       TopicConfig("voxl/setpoint", "setpoint_mqtt_cmd", 1) >>,
    << TopicConfig("voxl/offboard_cmd", "offboard_mqtt_cmd", 0),
       TopicConfig("voxl/offboard_cmd", "setpoint_mqtt_cmd", 1) >>,
    << TopicConfig("voxl/offboard_cmd", "offboard_mqtt_cmd", 0),
       TopicConfig("voxl/setpoint", "offboard_mqtt_cmd", 1) >> }

SetupConfigs ==
  [publish_topics : PublishLists, subscribe_topics : SubscribeLists,
   reconnect_delay : {ReconnectDelay}]

\* Channels whose pipe_client_open has succeeded: their helper threads run.
OpenedChannels ==
  {c \in ChannelIds : c < setup_ch \/ (c = setup_ch /\ setup_opened)}

\* pipe_client_open(ch, pipe_name, ...) of the entry the publish loop is at.
SetupPubOpen(ok) ==
  /\ main_pc = "setup_pub"
  /\ setup_i <= Len(g_config.publish_topics)
  /\ ~setup_opened
  /\ IF ok
     THEN /\ setup_opened' = TRUE
          /\ pipes_open' = TRUE
          /\ UNCHANGED <<setup_i, open_failed>>
     ELSE /\ open_failed' = [open_failed EXCEPT !.pub = @ \cup {setup_i}]
          /\ setup_i' = setup_i + 1
          /\ UNCHANGED <<setup_opened, pipes_open>>
  /\ UNCHANGED <<g_config, g_publish_pipes, g_channel_to_topic, g_subscribe_pipes,
                 g_topic_to_pipe, client, broker, timer, mainth, ret, bufobs, supobs,
                 pollobs, encoded, ignored, line_no, in_publish_section,
                 in_subscribe_section, current_topic, config_file, setup_ch>>

\* An insert that leaves ch as it is.
SetupPubInsert_same_channel ==
  /\ main_pc = "setup_pub"
  /\ setup_opened
  /\ LET e == g_config.publish_topics[setup_i]
     IN /\ g_publish_pipes' = Put(g_publish_pipes, e.pipe_name, setup_ch)
        /\ g_channel_to_topic' = Put(g_channel_to_topic, setup_ch, e.topic)
  /\ setup_i' = setup_i + 1
  /\ setup_opened' = FALSE
  /\ UNCHANGED <<g_config, g_subscribe_pipes, g_topic_to_pipe, pipes_open, client,
                 broker, timer, mainth, ret, bufobs, supobs, pollobs, envobs, line_no,
                 in_publish_section, in_subscribe_section, current_topic, config_file,
                 setup_ch>>

\* The open succeeded: the two table writes and ch++.
SetupPubInsert ==
  /\ main_pc = "setup_pub"
  /\ setup_opened
  /\ LET e == g_config.publish_topics[setup_i]
     IN /\ g_publish_pipes' = Put(g_publish_pipes, e.pipe_name, setup_ch)
        /\ g_channel_to_topic' = Put(g_channel_to_topic, setup_ch, e.topic)
  /\ setup_ch' = setup_ch + 1
  /\ setup_i' = setup_i + 1
  /\ setup_opened' = FALSE
  /\ UNCHANGED <<g_config, g_subscribe_pipes, g_topic_to_pipe, pipes_open, client,
                 broker, timer, mainth, ret, bufobs, supobs, pollobs, envobs, line_no,
                 in_publish_section, in_subscribe_section, current_topic, config_file>>

\* The publish loop ends; the subscribe block begins with ch = 0.
SetupPubEnd ==
  /\ main_pc = "setup_pub"
  /\ setup_i > Len(g_config.publish_topics)
  /\ main_pc' = "setup_sub"
  /\ setup_i' = 1
  /\ setup_ch' = 0
  /\ UNCHANGED <<routing, client, broker, timer, main_running, signalled, sleep_left, exit_code,
                 ret, bufobs, supobs, pollobs, envobs, line_no, in_publish_section,
                 in_subscribe_section, current_topic, config_file, setup_opened>>

\* One iteration of the subscribe loop: pipe_server_create, and the table
\* writes if it succeeded.
SetupSubEntry(ok) ==
  /\ main_pc = "setup_sub"
  /\ setup_i <= Len(g_config.subscribe_topics)
  /\ LET e == g_config.subscribe_topics[setup_i]
     IN IF ok
        THEN /\ g_subscribe_pipes' = Put(g_subscribe_pipes, e.pipe_name, setup_ch)
             /\ g_topic_to_pipe' = Put(g_topic_to_pipe, e.topic, e.pipe_name)
             /\ setup_ch' = setup_ch + 1
             /\ UNCHANGED open_failed
        ELSE /\ open_failed' = [open_failed EXCEPT !.sub = @ \cup {setup_i}]
             /\ UNCHANGED <<g_subscribe_pipes, g_topic_to_pipe, setup_ch>>
  /\ setup_i' = setup_i + 1
  /\ UNCHANGED <<g_config, g_publish_pipes, g_channel_to_topic, pipes_open, client,
                 broker, timer, mainth, ret, bufobs, supobs, pollobs, encoded, ignored,
                 line_no, in_publish_section, in_subscribe_section, current_topic,
                 config_file, setup_opened>>

\* The subscribe loop ends: setup_pipes returns 0.
SetupSubEnd ==
  /\ main_pc = "setup_sub"
  /\ setup_i > Len(g_config.subscribe_topics)
  /\ main_pc' = "connect0"
  /\ setup_i' = 0
  /\ setup_ch' = 0
  /\ UNCHANGED <<routing, client, broker, timer, main_running, signalled, sleep_left, exit_code,
                 ret, bufobs, supobs, pollobs, envobs, line_no, in_publish_section,
                 in_subscribe_section, current_topic, config_file, setup_opened>>

SetupThread ==
  \/ \E ok \in BOOLEAN : SetupPubOpen(ok)
  \/ SetupPubInsert
  \/ SetupPubEnd
  \/ \E ok \in BOOLEAN : SetupSubEntry(ok)
  \/ SetupSubEnd

\* A helper thread of an opened pipe delivers data.
SetupPipeThreads == \E ch \in OpenedChannels, d \in Data : PipeData(ch, d)

\* main() has loaded the configuration, initialised the client, made the
\* timer object and registered its callbacks: setup_pipes begins.
SetupInit ==
  /\ g_config \in SetupConfigs
  /\ g_publish_pipes = EmptyMap
  /\ g_channel_to_topic = EmptyMap
  /\ g_subscribe_pipes = EmptyMap
  /\ g_topic_to_pipe = EmptyMap
  /\ pipes_open = FALSE
  /\ open_failed = [pub |-> {}, sub |-> {}]
  /\ Constructed
  /\ line_no = 0
  /\ in_publish_section = FALSE
  /\ in_subscribe_section = FALSE
  /\ current_topic = NoTopic
  /\ config_file = <<>>
  /\ setup_i = 1
  /\ setup_ch = 0
  /\ setup_opened = FALSE
  /\ m_mosq = TRUE
  /\ callbacks = TRUE
  /\ m_running = FALSE
  /\ io_pc = "idle"
  /\ session = "closed"
  /\ m_timer_running = FALSE
  /\ timer_pc = "idle"
  /\ main_running = 0
  /\ main_pc = "setup_pub"
  /\ sup = NoSleep

SetupNext == SetupThread \/ SetupPipeThreads

SetupSpec == SetupInit /\ [][SetupNext]_vars

(***************************************************************************)
(* load_config (src/src/config_file.cpp), one line of the file per step.   *)
(***************************************************************************)
\* the length up to which every configuration file is read
MaxLines == 3

\* set_default_config.
DefaultConfig ==
  [ publish_topics   |-> << TopicConfig("voxl/vio", "vvhub_aligned_vio", 0),
                            TopicConfig("voxl/battery", "/run/mpa/mavlink_sys_status/", 0),
                            TopicConfig("voxl/heartbeat", "mavlink_ap_heartbeat", 0) >>,
    subscribe_topics |-> << TopicConfig("voxl/offboard_cmd", "offboard_mqtt_cmd", 0) >>,
    reconnect_delay  |-> 5 ]

\* A line as the loop sees it once trimmed and split at '=': a section
\* header (kept whole in key), or a key and its value.
Line(key, value) == [key |-> key, value |-> value]

Headers == {"[publish_topics]", "[subscribe_topics]", "[other]"}

Lines ==
  [key : Headers, value : {""}]
    \cup [key : {"topic"}, value : {"voxl/vio", "voxl/heartbeat"}]
    \cup [key : {"pipe_name"}, value : {"vvhub_aligned_vio", "mavlink_ap_heartbeat"}]
    \cup [key : {"qos", "reconnect_delay"}, value : {"1", "2s", "fast"}]

\* std::stoi: the integer the string begins with; std::invalid_argument is
\* thrown when it begins with none.
stoi(value) ==
  CASE value = "1"  -> [ok |-> TRUE, val |-> 1]
    [] value = "2s" -> [ok |-> TRUE, val |-> 2]
    [] OTHER        -> [ok |-> FALSE, val |-> 0]

\* The files read: every file of up to MaxLines lines, and longer ones with
\* records before and after a record that lacks a field or has a malformed
\* qos, in either section.
Files ==
  LET vio  == <<Line("topic", "voxl/vio"), Line("pipe_name", "vvhub_aligned_vio"),
                Line("qos", "1")>>
      hb   == <<Line("topic", "voxl/heartbeat"), Line("pipe_name", "mavlink_ap_heartbeat"),
                Line("qos", "2s")>>
      pub  == <<Line("[publish_topics]", "")>>
      sub  == <<Line("[subscribe_topics]", "")>>
  IN UNION {[1..n -> Lines] : n \in 0..MaxLines} \cup
     { pub \o vio \o hb,
       pub \o vio \o <<Line("pipe_name", "mavlink_ap_heartbeat"), Line("qos", "1")>> \o vio,
       sub \o vio \o <<Line("topic", "voxl/heartbeat"), Line("qos", "1")>> \o vio,
       pub \o vio \o sub \o <<Line("qos", "1")>> \o hb,
       pub \o vio \o <<Line("topic", "voxl/heartbeat"),
                        Line("pipe_name", "mavlink_ap_heartbeat"),
                        Line("qos", "fast")>> \o vio,
       <<Line("reconnect_delay", "2s")>> \o pub \o vio \o sub \o hb }

\* A parser that begins an empty record once it has appended one.
LoadConfigLine_new_record ==
  /\ main_pc = "load_config"
  /\ line_no < Len(config_file)
  /\ LET l        == config_file[line_no + 1]
         n        == stoi(l.value)
         in_topic == in_publish_section \/ in_subscribe_section
         number   == \/ in_topic /\ l.key = "qos"
                     \/ ~in_topic /\ l.key = "reconnect_delay"
         rec      == [current_topic EXCEPT !.qos = n.val]
     IN /\ line_no' = line_no + 1
        /\ in_publish_section' =
             IF l.key \in Headers THEN l.key = "[publish_topics]"
             ELSE in_publish_section
        /\ in_subscribe_section' =
             IF l.key \in Headers THEN l.key = "[subscribe_topics]"
             ELSE in_subscribe_section
        /\ current_topic' =
             CASE in_topic /\ l.key = "topic" -> [current_topic EXCEPT !.topic = l.value]
               [] in_topic /\ l.key = "pipe_name" ->
                    [current_topic EXCEPT !.pipe_name = l.value]
               [] in_topic /\ l.key = "qos" /\ n.ok -> NoTopic
               [] OTHER -> current_topic
        /\ g_config' =
             CASE l.key = "[publish_topics]" -> [g_config EXCEPT !.publish_topics = <<>>]
               [] l.key = "[subscribe_topics]" ->
                    [g_config EXCEPT !.subscribe_topics = <<>>]
               [] in_publish_section /\ l.key = "qos" /\ n.ok ->
                    [g_config EXCEPT !.publish_topics = Append(@, rec)]
               [] in_subscribe_section /\ l.key = "qos" /\ n.ok ->
                    [g_config EXCEPT !.subscribe_topics = Append(@, rec)]
               [] ~in_topic /\ l.key = "reconnect_delay" /\ n.ok ->
                    [g_config EXCEPT !.reconnect_delay = n.val]
               [] OTHER -> g_config
        /\ main_pc' = IF number /\ ~n.ok THEN "terminated" ELSE main_pc
  /\ UNCHANGED <<g_publish_pipes, g_channel_to_topic, g_subscribe_pipes, g_topic_to_pipe,
                 pipes_open, client, broker, timer, main_running, signalled, sleep_left, exit_code,
                 ret, bufobs, supobs, pollobs, envobs, setup_i, setup_ch, setup_opened,
                 config_file>>

\* One turn of the while loop: getline, then the line's effect.  An
\* exception of std::stoi leaves load_config and main, which have no
\* handler for it: std::terminate ends the process.
LoadConfigLine ==
  /\ main_pc = "load_config"
  /\ line_no < Len(config_file)
  /\ LET l        == config_file[line_no + 1]
         n        == stoi(l.value)
         in_topic == in_publish_section \/ in_subscribe_section
         number   == \/ in_topic /\ l.key = "qos"
                     \/ ~in_topic /\ l.key = "reconnect_delay"
         rec      == [current_topic EXCEPT !.qos = n.val]
     IN /\ line_no' = line_no + 1
        /\ in_publish_section' =
             IF l.key \in Headers THEN l.key = "[publish_topics]"
             ELSE in_publish_section
        /\ in_subscribe_section' =
             IF l.key \in Headers THEN l.key = "[subscribe_topics]"
             ELSE in_subscribe_section
        /\ current_topic' =
             CASE in_topic /\ l.key = "topic" -> [current_topic EXCEPT !.topic = l.value]
               [] in_topic /\ l.key = "pipe_name" ->
                    [current_topic EXCEPT !.pipe_name = l.value]
               [] in_topic /\ l.key = "qos" /\ n.ok -> rec
               [] OTHER -> current_topic
        /\ g_config' =
             CASE l.key = "[publish_topics]" -> [g_config EXCEPT !.publish_topics = <<>>]
               [] l.key = "[subscribe_topics]" ->
                    [g_config EXCEPT !.subscribe_topics = <<>>]
               [] in_publish_section /\ l.key = "qos" /\ n.ok ->
                    [g_config EXCEPT !.publish_topics = Append(@, rec)]
               [] in_subscribe_section /\ l.key = "qos" /\ n.ok ->
                    [g_config EXCEPT !.subscribe_topics = Append(@, rec)]
               [] ~in_topic /\ l.key = "reconnect_delay" /\ n.ok ->
                    [g_config EXCEPT !.reconnect_delay = n.val]
               [] OTHER -> g_config
        /\ main_pc' = IF number /\ ~n.ok THEN "terminated" ELSE main_pc
  /\ UNCHANGED <<g_publish_pipes, g_channel_to_topic, g_subscribe_pipes, g_topic_to_pipe,
                 pipes_open, client, broker, timer, main_running, signalled, sleep_left, exit_code,
                 ret, bufobs, supobs, pollobs, envobs, setup_i, setup_ch, setup_opened,
                 config_file>>

\* getline fails at the end of the file (or the file could not be opened,
\* which is the empty file here): close, return 0.
LoadConfigEof ==
  /\ main_pc = "load_config"
  /\ line_no = Len(config_file)
  /\ main_pc' = "loaded"
  /\ line_no' = 0
  /\ in_publish_section' = FALSE
  /\ in_subscribe_section' = FALSE
  /\ current_topic' = NoTopic
  /\ config_file' = <<>>
  /\ UNCHANGED <<routing, client, broker, timer, main_running, signalled, sleep_left, exit_code,
                 ret, bufobs, supobs, pollobs, envobs, setup_i, setup_ch, setup_opened>>

ConfigInit ==
  /\ g_config = DefaultConfig
  /\ config_file \in Files
  /\ g_publish_pipes = EmptyMap
  /\ g_channel_to_topic = EmptyMap
  /\ g_subscribe_pipes = EmptyMap
  /\ g_topic_to_pipe = EmptyMap
  /\ pipes_open = FALSE
  /\ open_failed = [pub |-> {}, sub |-> {}]
  /\ Constructed
  /\ line_no = 0
  /\ in_publish_section = FALSE
  /\ in_subscribe_section = FALSE
  /\ current_topic = NoTopic
  /\ setup_i = 0
  /\ setup_ch = 0
  /\ setup_opened = FALSE
  /\ m_mosq = FALSE
  /\ callbacks = FALSE
  /\ m_running = FALSE
  /\ io_pc = "idle"
  /\ session = "closed"
  /\ m_timer_running = FALSE
  /\ timer_pc = "idle"
  /\ main_running = 0
  /\ main_pc = "load_config"
  /\ sup = NoSleep

ConfigNext == LoadConfigLine \/ LoadConfigEof

ConfigSpec == ConfigInit /\ [][ConfigNext]_vars

(***************************************************************************)
(* One MQTTClient object and a caller of its public methods.               *)
(***************************************************************************)
Called(op, r) == [op |-> op, ok |-> r.ok, mosq |-> r.mosq]

ApiIdle == main_pc = "api"

\* initialize(config): mosquitto_new gives an instance, or fails.
ApiInitialize(ok) ==
  /\ ApiIdle
  /\ ~m_mosq
  /\ m_mosq' = ok
  /\ ret' = Called("initialize", Result(ok, "mosquitto_new"))
  /\ UNCHANGED <<routing, m_connected, m_running, callbacks, io_pc, broker, timer,
                 mainth, bufobs, supobs, pollobs, envobs, startup>>

ApiConnect(rc) ==
  /\ ApiIdle
  /\ LET r == connect(rc)
     IN /\ ret' = Called("connect", r)
        /\ IF r.mosq = "none" THEN UNCHANGED broker
           ELSE session' = SessionAfterConnect(rc) /\ subs' = {}
  /\ UNCHANGED <<routing, client, timer, mainth, bufobs, supobs, pollobs, envobs, startup>>

\* disconnect(): with no session the library refuses (MOSQ_ERR_NO_CONN).
\* Else it sends DISCONNECT, and runs the disconnect callback either inside
\* the call (sync) or later, from mosquitto_loop.
ApiDisconnect(sync) ==
  /\ ApiIdle
  /\ LET live == session \in {"pending", "established"}
         r == disconnect(IF live THEN MOSQ_ERR_SUCCESS ELSE MOSQ_ERR_OTHER)
     IN /\ ret' = Called("disconnect", r)
        /\ IF r.mosq = "none" \/ ~live
           THEN UNCHANGED <<m_connected, broker>>
           ELSE /\ subs' = {}
                /\ IF sync
                   THEN session' = "closed" /\ m_connected' = on_disconnect_wrapper(0)
                   ELSE session' = "closing" /\ UNCHANGED m_connected
  /\ UNCHANGED <<routing, m_mosq, m_running, callbacks, io_pc, timer, mainth,
                 bufobs, supobs, pollobs, envobs, startup>>

ApiPublish(topic, payload, qos, rc) ==
  /\ ApiIdle
  /\ ret' = Called("publish", publish(m_connected, topic, payload, qos, rc))
  /\ UNCHANGED <<routing, client, broker, timer, mainth, bufobs, supobs, pollobs, envobs, startup>>

ApiSubscribe(topic, qos, rc) ==
  /\ ApiIdle
  /\ LET r == subscribe(m_connected, topic, qos, rc)
     IN /\ ret' = Called("subscribe", r)
        /\ subs' = IF r.ok THEN subs \cup {topic} ELSE subs
  /\ UNCHANGED <<routing, client, session, timer, mainth, bufobs, supobs, pollobs, envobs, startup>>

ApiUnsubscribe(topic, rc) ==
  /\ ApiIdle
  /\ LET r == unsubscribe(m_connected, topic, rc)
     IN /\ ret' = Called("unsubscribe", r)
        /\ subs' = IF r.ok THEN subs \ {topic} ELSE subs
  /\ UNCHANGED <<routing, client, session, timer, mainth, bufobs, supobs, pollobs, envobs, startup>>

\* run(): start the I/O thread.
ApiRun ==
  /\ ApiIdle
  /\ io_pc = "idle"
  /\ m_running' = TRUE
  /\ io_pc' = "loop"
  /\ UNCHANGED <<routing, m_mosq, m_connected, callbacks, broker, timer, mainth,
                 ret, bufobs, supobs, pollobs, envobs, startup>>

\* stop(): clear m_running, then join the I/O thread if there is one.
ApiStop ==
  /\ ApiIdle
  /\ m_running' = FALSE
  /\ main_pc' = IF io_pc = "idle" THEN "api" ELSE "api_join"
  /\ UNCHANGED <<routing, m_mosq, m_connected, callbacks, io_pc, broker, timer,
                 main_running, signalled, sleep_left, exit_code, ret, bufobs, supobs,
                 pollobs, envobs, startup>>

ApiJoin ==
  /\ main_pc = "api_join"
  /\ io_pc = "done"
  /\ io_pc' = "idle"
  /\ main_pc' = "api"
  /\ UNCHANGED <<routing, m_mosq, m_connected, m_running, callbacks, broker, timer,
                 main_running, signalled, sleep_left, exit_code, ret, bufobs, supobs,
                 pollobs, envobs, startup>>

QosLevels == 0 .. 2

ApiCaller ==
  \/ \E ok \in BOOLEAN : ApiInitialize(ok)
  \/ \E rc \in MosqRc : ApiConnect(rc)
  \/ \E sync \in BOOLEAN : ApiDisconnect(sync)
  \/ \E topic \in MsgTopics, payload \in 1..MaxData, qos \in QosLevels, rc \in MosqRc :
       ApiPublish(topic, payload, qos, rc)
  \/ \E topic \in MsgTopics, qos \in QosLevels, rc \in MosqRc :
       ApiSubscribe(topic, qos, rc)
  \/ \E topic \in MsgTopics, rc \in MosqRc : ApiUnsubscribe(topic, rc)
  \/ ApiRun
  \/ ApiStop
  \/ ApiJoin

\* The I/O thread of a client whose caller may call disconnect().
ClientIo ==
  \/ IoThread
  \/ \E rc \in MosqRc : IoPollDisconnected(rc)

\* The object as its constructor leaves it, no callback registered.
ClientInit ==
  /\ g_config \in Configs
  /\ g_publish_pipes = EmptyMap
  /\ g_channel_to_topic = EmptyMap
  /\ g_subscribe_pipes = EmptyMap
  /\ g_topic_to_pipe = EmptyMap
  /\ pipes_open = FALSE
  /\ open_failed = [pub |-> {}, sub |-> {}]
  /\ Constructed
  /\ StartupDone
  /\ m_mosq = FALSE
  /\ callbacks = FALSE
  /\ m_running = FALSE
  /\ io_pc = "idle"
  /\ session = "closed"
  /\ m_timer_running = FALSE
  /\ timer_pc = "idle"
  /\ main_running = 0
  /\ main_pc = "api"
  /\ sup = NoSleep

ClientNext == ApiCaller \/ ClientIo

ClientSpec == ClientInit /\ [][ClientNext]_vars

(***************************************************************************)
(* Properties of the coalescing buffer, checked under BufferSpec.          *)
(***************************************************************************)
\* The arguments of the publish call a visit made.
VisitArgs == [topic |-> last_visit.topic, payload |-> last_visit.payload,
              qos |-> last_visit.qos]

Visited == last_visit.ch # -1

\* C1: if buffer_data is called N >= 1 times for a channel between two
\* flush passes, the next pass calls publish for the channel exactly once,
\* with the topic, QoS and payload of the last of the N calls: the pass
\* visits the channel, the visit publishes what the last call stored, the
\* channel is not visited again in the pass, and a finished pass has left no
\* updated channel out.
C1_FlushPublishesLastUpdateOnce ==
  /\ (Visited /\ last_visit.n >= 1) =>
       /\ last_visit.called
       /\ VisitArgs = upd_last[last_visit.ch]
       /\ last_visit.ch \notin timer_iter
  /\ (timer_pc = "pass" /\ timer_iter = {}) => \A c \in ChannelIds : upd_n[c] = 0

\* A flush pass has just published, once, the last of several updates.
C1_Witness ==
  /\ Visited
  /\ last_visit.n >= 2
  /\ last_visit.called
  /\ VisitArgs = upd_last[last_visit.ch]

\* C2: a flush pass that finds a channel not updated since the pass before
\* makes no publish call for it.
C2_NoUpdateNoPublish ==
  (Visited /\ last_visit.n = 0) => ~last_visit.called

\* A pass has skipped an entry that an earlier pass had published.
C2_Witness ==
  /\ Visited
  /\ last_visit.n = 0
  /\ ~last_visit.called
  /\ last_visit.ch \in DOMAIN m_buffered_data

\* C3: once a flush pass has called publish for a channel the item is not
\* pending, whatever publish returned: an item is pending only if buffer_data
\* was called after the last visit.
C3_PendingClearedWhateverPublishReturns ==
  /\ \A c \in DOMAIN m_buffered_data : upd_n[c] = 0 => ~m_buffered_data[c].has_data
  /\ last_visit.called => ~m_buffered_data[last_visit.ch].has_data

\* publish has refused an item because the client is not connected, and the
\* item is no longer pending.
C3_Witness ==
  /\ last_visit.called
  /\ ~last_visit.ok
  /\ last_visit.mosq = "none"
  /\ ~m_buffered_data[last_visit.ch].has_data

(***************************************************************************)
(* Properties of MQTTClient, checked under ClientSpec.                     *)
(***************************************************************************)
\* A step that is a call of publish, subscribe or unsubscribe.
TrafficCall ==
  \/ \E topic \in MsgTopics, payload \in 1..MaxData, qos \in QosLevels, rc \in MosqRc :
       ApiPublish(topic, payload, qos, rc)
  \/ \E topic \in MsgTopics, qos \in QosLevels, rc \in MosqRc :
       ApiSubscribe(topic, qos, rc)
  \/ \E topic \in MsgTopics, rc \in MosqRc : ApiUnsubscribe(topic, rc)

\* A step in which the library runs the connect callback with this result.
ConnectCallback(result) ==
  \E disc \in BOOLEAN :
    \E rcs \in [DOMAIN g_config.subscribe_topics -> MosqRc] :
      IoPollConnack(result, rcs, disc)

\* A step in which the library runs the disconnect callback.
DisconnectCallback ==
  \/ \E rc \in MosqRc : IoPollLost(rc)
  \/ \E rc \in MosqRc : IoPollDisconnected(rc)
  \/ m_mosq /\ session \in {"pending", "established"} /\ ApiDisconnect(TRUE)
  \/ \E result \in ConnackCodes \ {0} :
       \E rcs \in [DOMAIN g_config.subscribe_topics -> MosqRc] :
         IoPollConnack(result, rcs, TRUE)

\* C4: while the client is not connected, publish, subscribe and
\* unsubscribe return false at once: the library is not called, and neither
\* the client nor the session changes.
C4_NotConnectedRefused ==
  [][(~m_connected /\ TrafficCall) =>
       /\ ~ret'.ok
       /\ ret'.mosq = "none"
       /\ UNCHANGED <<client, broker>>]_vars

\* An initialised client that is not connected has refused a publish.
C4_Witness ==
  /\ m_mosq
  /\ ~m_connected
  /\ ret = Called("publish", Result(FALSE, "none"))

\* C5: after the disconnect callback has run is_connected() reads false,
\* and it turns from false to true only in a later connect callback with
\* result 0.
C5_FalseUntilConnectCallback ==
  [][/\ DisconnectCallback => ~is_connected'
     /\ (~is_connected /\ is_connected') => ConnectCallback(0)]_vars

\* The disconnect callback has run for a lost connection, connect() has
\* succeeded since, and is_connected() still reads false.
C5_Witness ==
  /\ io_pc = "sleep"
  /\ session = "pending"
  /\ ret = Called("connect", Result(TRUE, "mosquitto_connect"))
  /\ ~is_connected

\* C6: when disconnect() returns the client is disconnected.
C6_DisconnectedOnReturn ==
  [][(\E sync \in BOOLEAN : ApiDisconnect(sync)) => ~is_connected']_vars

\* C7: connect() returns with the handshake still to come and does not
\* change the connection state itself, and a connect callback with a
\* non-zero result leaves the client disconnected.
C7_ConnectLeavesStateToCallback ==
  [][/\ (\E rc \in MosqRc : ApiConnect(rc)) =>
          /\ m_connected' = m_connected
          /\ session' # "established"
     /\ (\E result \in ConnackCodes \ {0} : ConnectCallback(result)) => ~m_connected']_vars

\* connect() has returned true, the handshake is pending, and the client
\* is not connected.
C7_Witness ==
  /\ ret = Called("connect", Result(TRUE, "mosquitto_connect"))
  /\ session = "pending"
  /\ ~m_connected
  /\ io_pc = "loop"

(***************************************************************************)
(* Properties of the supervisor loop, checked under Spec and FairSpec.     *)
(***************************************************************************)
\* The main thread is in its while (main_running) loop and not signalled.
SupervisorRuns == main_running # 0 /\ main_pc \in {"top", "sleep1", "sleepd"}

\* The main thread has just returned from a connect() call.
ConnectReturned == main_pc = "top" /\ sup.since_connect = 0

\* C8: while the bridge runs and is not connected the supervisor always
\* gets to another connect() call, however many it has made: from every
\* such state it reaches a connect(), unless the client is connected or the
\* bridge is told to stop first.
C8_SupervisorKeepsConnecting ==
  (SupervisorRuns /\ ~is_connected)
    ~> (ConnectReturned \/ is_connected \/ main_running = 0)

\* The supervisor has called connect() before, the client is still not
\* connected, and the supervisor is on its way to the next call.
C8_Witness ==
  /\ SupervisorRuns
  /\ ~is_connected
  /\ main_pc = "sleepd"
  /\ last_connect # NoSleep

\* C9 as stated: the supervisor sleeps exactly reconnect_delay between
\* finding the connection down and connect(), and exactly reconnect_delay
\* between two consecutive connect() calls with no connection between them.
C9_ExactlyReconnectDelayApart ==
  /\ last_connect.since_down \in {-1, g_config.reconnect_delay}
  /\ last_connect.since_connect \in {-1, g_config.reconnect_delay}

\* C9: the supervisor sleeps exactly reconnect_delay between finding the
\* connection down and connect(); two consecutive connect() calls with no
\* connection seen between them are one poll second and reconnect_delay
\* apart, whatever the number of calls before.
C9_FixedDelayAfterPoll ==
  /\ last_connect.since_down \in {-1, g_config.reconnect_delay}
  /\ last_connect.since_connect \in {-1, poll_sleep + g_config.reconnect_delay}

\* The supervisor has called connect() after a connect() that brought no
\* connection.
C9_Witness ==
  /\ last_connect.since_down = g_config.reconnect_delay
  /\ last_connect.since_connect = poll_sleep + g_config.reconnect_delay
  /\ ConnectReturned

\* C10: the supervisor never calls connect() while the I/O thread is in a
\* reconnection of its own (the I/O thread has none).
C10_SupervisorAloneReconnects ==
  [][(\E rc \in MosqRc : SupConnect(rc)) => io_pc # "sleep"]_vars

(***************************************************************************)
(* Properties of start-up, message delivery and shutdown, checked under    *)
(* Spec.                                                                   *)
(***************************************************************************)
\* C11: whatever the initial connect() returns, main goes on to start its
\* threads and to the supervisor loop; it does not leave with an error.
C11_InitialConnectFailureNotFatal ==
  [][(\E rc \in MosqRc : MainConnect0(rc)) => (main_pc' = "start" /\ exit_code' = 0)]_vars

\* The topic has a route to an open server pipe.
Routed(topic) ==
  /\ topic \in DOMAIN g_topic_to_pipe
  /\ g_topic_to_pipe[topic] \in DOMAIN g_subscribe_pipes

\* C12: every broker message with a routed topic, the empty message
\* included, causes exactly one pipe_server_write, of its payload, to the
\* channel of its topic, and no other write.
C12_RoutedMessageWrittenOnce ==
  [][\A message \in Messages :
       (IoPollMessage(message) /\ Routed(message.topic)) =>
         written' = << [ch |-> g_subscribe_pipes[g_topic_to_pipe[message.topic]],
                        payload |-> message.payload] >>]_vars

\* C13: a broker message whose topic has no route causes no write, no
\* error, and no change of the routing tables, the buffer or the client.
C13_UnroutedMessageDropped ==
  [][\A message \in Messages :
       (IoPollMessage(message) /\ ~Routed(message.topic)) =>
         /\ written' = << >>
         /\ io_pc' = "loop"
         /\ UNCHANGED <<routing, client, broker, timer, mainth>>]_vars

\* A message with a payload and a topic without a route has been
\* delivered; nothing was written and the I/O thread goes on polling.
C13_Witness ==
  /\ polled.payload # 0
  /\ polled.topic \in MsgTopics
  /\ ~Routed(polled.topic)
  /\ pipes_open
  /\ written = << >>
  /\ io_pc = "loop"

(***************************************************************************)
(* Properties of the pipe data callback, checked under BufferSpec.         *)
(***************************************************************************)
\* C14: data from a channel without a route leaves the buffer as it is (no
\* entry, no pending flag), and no flush pass ever publishes for such a
\* channel.
C14_UnroutedDataIgnored ==
  /\ [](/\ DOMAIN m_buffered_data \subseteq DOMAIN g_channel_to_topic
        /\ Visited => last_visit.ch \in DOMAIN g_channel_to_topic)
  /\ [][\A ch \in ChannelIds, d \in Data :
          (ch \notin DOMAIN g_channel_to_topic /\ PipeData(ch, d)) =>
            UNCHANGED m_buffered_data]_vars

\* A channel without a route has delivered data, and a flush pass has run
\* to its end since.
C14_Witness ==
  /\ ignored # {}
  /\ ignored \cap DOMAIN m_buffered_data = {}
  /\ timer_pc = "pass"
  /\ timer_iter = {}

\* Every encoder parse_pipe_data_to_json tries for the channel's pipe
\* rejects the data.
AllEncodersFail(ch, d) == ~parse_pipe_data_to_json(CallbackPipeName(ch), d).ok

\* C15: when every encoder fails on the data of a routed channel, the
\* callback buffers exactly the raw input bytes, not the JSON wrapper the
\* encoder left in its output, and the update is pending like any other.
\* (A callback step for d records a payload of d's bytes; the formula looks
\* at that first to pass over the steps that are no callback for d.)
C15_RawBytesOnEncoderFailure ==
  [][\A ch \in DOMAIN g_channel_to_topic, d \in Data :
       (/\ upd_last'[ch].payload.of = d.bytes
        /\ AllEncodersFail(ch, d)
        /\ PipeData(ch, d)) =>
         /\ m_buffered_data'[ch].payload = RawString(d)
         /\ m_buffered_data'[ch].payload # parse_pipe_data_to_json(CallbackPipeName(ch), d).json
         /\ m_buffered_data'[ch].has_data
         /\ m_buffered_data'[ch].topic = g_channel_to_topic[ch]]_vars

\* A routed channel holds a pending item whose payload is raw bytes.
C15_Witness ==
  \E ch \in DOMAIN m_buffered_data :
    /\ m_buffered_data[ch].payload.enc = "raw"
    /\ m_buffered_data[ch].has_data
    /\ upd_last[ch].payload = m_buffered_data[ch].payload

(***************************************************************************)
(* The encoder alone: parse_pipe_data_to_json applied to any pipe name and *)
(* any data.                                                               *)
(***************************************************************************)
\* Pipe names: the configured ones, paths, a name with both patterns, and
\* names with none.
PipeNames ==
  {"vvhub_aligned_vio", "/run/mpa/vvhub_aligned_vio/", "imu_apps", "/run/mpa/imu_apps/",
   "vvhub_aligned_vio_imu_apps", "imu_apps_vvhub_aligned_vio",
   "mavlink_ap_heartbeat", "offboard_mqtt_cmd"}

\* A caller runs parse_pipe_data_to_json(pipe_name, d).
Encode(pipe_name, d) ==
  /\ encoded' = [pipe_name |-> pipe_name, data |-> d] @@ parse_pipe_data_to_json(pipe_name, d)
  /\ UNCHANGED <<routing, client, broker, timer, mainth, ret, bufobs, supobs, pollobs,
                 open_failed, startup, ignored>>

EncoderInit == ClientInit

EncoderNext == \E pipe_name \in PipeNames, d \in Data : Encode(pipe_name, d)

EncoderSpec == EncoderInit /\ [][EncoderNext]_vars

\* The order in which the encoders apply to a pipe name: the VIO and IMU
\* encoders if the name has their pattern, then the MAVLink encoder.
EncoderOrder(pipe_name) ==
  (IF NameContains(pipe_name, "vvhub_aligned_vio") THEN <<"vio">> ELSE << >>)
    \o (IF NameContains(pipe_name, "imu_apps") THEN <<"imu">> ELSE << >>)
    \o <<"mavlink">>

PublishTablesLive == pipes_open

SubscribeTablesLive == main_pc \notin {"delete", "exited"}

\* C17: an entry whose pipe open failed in setup_pipes has no route, every
\* entry whose open succeeded has its route (publish: pipe -> channel ->
\* topic; subscribe: topic -> pipe -> channel), and main goes on to connect.
C17_FailedOpenSkipsOneEntry ==
  /\ PublishTablesLive =>
       \A i \in DOMAIN g_config.publish_topics :
         LET e == g_config.publish_topics[i]
         IN IF i \in open_failed.pub
            THEN /\ e.pipe_name \notin DOMAIN g_publish_pipes
                 /\ e.topic \notin Range(g_channel_to_topic)
            ELSE /\ e.pipe_name \in DOMAIN g_publish_pipes
                 /\ g_publish_pipes[e.pipe_name] \in DOMAIN g_channel_to_topic
                 /\ g_channel_to_topic[g_publish_pipes[e.pipe_name]] = e.topic
  /\ SubscribeTablesLive =>
       \A i \in DOMAIN g_config.subscribe_topics :
         LET e == g_config.subscribe_topics[i]
         IN IF i \in open_failed.sub
            THEN /\ e.pipe_name \notin DOMAIN g_subscribe_pipes
                 /\ e.topic \notin DOMAIN g_topic_to_pipe
            ELSE /\ e.pipe_name \in DOMAIN g_subscribe_pipes
                 /\ e.topic \in DOMAIN g_topic_to_pipe
                 /\ g_topic_to_pipe[e.topic] = e.pipe_name
  /\ main_pc = "connect0" => exit_code = 0

\* The first open failed on each side, the second entries have their
\* routes, and the bridge is running.
C17_Witness ==
  /\ open_failed = [pub |-> {1}, sub |-> {1}]
  /\ g_channel_to_topic = Put(EmptyMap, 0, "voxl/heartbeat")
  /\ g_topic_to_pipe = Put(EmptyMap, "voxl/setpoint", "setpoint_mqtt_cmd")
  /\ main_pc = "top"
  /\ main_running = 1

\* main has started its threads (or has given up before starting them).
PastStart == main_pc \notin {"connect0", "start"}

\* The supervisor loop has been left.
SupervisorLeft == PastStart /\ main_pc \notin {"top", "sleep1", "sleepd"}

\* The I/O thread has been joined (or was never started).
IoJoined == PastStart /\ io_pc = "idle"

\* The timer thread has been joined (or was never started).
TimerJoined == PastStart /\ timer_pc = "idle"

\* cleanup_pipes has called clear_buffered_data.
BufferCleared == main_pc \in {"close_sub", "delete", "exited"}

\* A step of a flush pass, or a connect() call.
FlushOrConnect ==
  \/ TimerWake
  \/ TimerFlushEntry
  \/ TimerPassEnd
  \/ \E rc \in MosqRc : SupConnect(rc) \/ MainConnect0(rc)

\* C18 as stated: the I/O thread stops first, the timer second and the
\* supervisor loop last, and the buffer is cleared after all three.
C18_IoThenTimerThenSupervisor ==
  /\ TimerJoined => IoJoined
  /\ SupervisorLeft => TimerJoined
  /\ BufferCleared => (IoJoined /\ TimerJoined /\ SupervisorLeft)

\* C18: the supervisor loop ends first (its thread runs the shutdown), then
\* the I/O thread is joined, then the timer thread; the buffer is cleared
\* only after all three have stopped, and no flush pass and no connect()
\* follows the clearing.
C18_SupervisorThenIoThenTimer ==
  /\ [](/\ IoJoined => SupervisorLeft
        /\ TimerJoined => IoJoined
        /\ BufferCleared => (IoJoined /\ TimerJoined /\ SupervisorLeft))
  /\ [][BufferCleared => ~FlushOrConnect]_vars

\* The bridge has run and shut down: both threads joined, buffer cleared.
C18_Witness ==
  /\ main_pc = "exited"
  /\ exit_code = 0
  /\ IoJoined
  /\ TimerJoined
  /\ m_buffered_data = EmptyMap

\* C19: when the shutdown sequence is at its end (the client is about to
\* be destroyed) the buffer has no entries and disconnect() has ended the
\* broker session.
C19_ShutdownClearsAndDisconnects ==
  [][(MainDelete /\ exit_code = 0) =>
       /\ m_buffered_data = EmptyMap
       /\ session \notin {"pending", "established"}]_vars

\* Shutdown has been requested after the threads were started.
ShutdownRequested == PastStart /\ main_running = 0

\* C20: once shutdown has been requested each loop stops at its next
\* wake-up: the supervisor does not go on to another connect(), the timer
\* starts no flush pass, and the I/O loop does not poll.
C20_LoopsStopAtNextWakeUp ==
  [][ShutdownRequested =>
       /\ SupCheck => main_pc' # "sleepd"
       /\ TimerWake => timer_pc' # "pass"
       /\ ~(Polling /\ IoThread)]_vars

(***************************************************************************)
(* Properties of the buffer lock, checked under TeardownSpec.              *)
(***************************************************************************)
\* A flush pass is inside the critical section of m_buffer_mutex.
\* C21: buffer_data, a flush pass and clear_buffered_data exclude one
\* another: the lock is held exactly while a pass runs; during a pass the
\* buffer changes only where the pass resets the flag of the entry it
\* visits; and while the pipes are open every update made since a channel
\* was last visited is in the buffer in full and pending.
C21_BufferCriticalSections ==
  /\ [](/\ (m_buffer_mutex = "timer") <=> (timer_pc = "pass")
        /\ m_buffer_mutex \in {"free", "timer"}
        /\ \A ch \in ChannelIds :
             (pipes_open /\ upd_n[ch] > 0) =>
               /\ ch \in DOMAIN m_buffered_data
               /\ m_buffered_data[ch] =
                    BufferedData(upd_last[ch].payload, upd_last[ch].topic,
                                 upd_last[ch].qos, TRUE))
  /\ [][(timer_pc = "pass") =>
          /\ DOMAIN m_buffered_data' = DOMAIN m_buffered_data
          /\ UNCHANGED <<upd_last, pipes_open>>
          /\ \A c \in DOMAIN m_buffered_data :
               m_buffered_data'[c] # m_buffered_data[c] =>
                 /\ timer_iter # {}
                 /\ c = Min(timer_iter)
                 /\ m_buffered_data'[c] = [m_buffered_data[c] EXCEPT !.has_data = FALSE]]_vars

\* A flush pass holds the lock and has still to visit a channel whose
\* update arrived before the pass began.
C21_Witness ==
  /\ (timer_pc = "pass")
  /\ m_buffer_mutex = "timer"
  /\ \E c \in timer_iter : upd_n[c] > 0 /\ m_buffered_data[c].has_data

\* The step calls publish: the flush loop's record of its latest iteration
\* is new and says so.
PublishCalled == last_visit' # last_visit /\ last_visit'.called

\* C22: every publish call is made by the flush timer thread inside a
\* flush pass, under the buffer lock, for the entry the pass is visiting;
\* the step that calls publish is no step of the data callback (it makes
\* no buffer_data call).
C22_OnlyTheTimerPublishes ==
  [][PublishCalled =>
       /\ (timer_pc = "pass") /\ (timer_pc' = "pass")
       /\ m_buffer_mutex = "timer"
       /\ timer_iter # {}
       /\ last_visit'.ch = Min(timer_iter)
       /\ last_visit'.payload = m_buffered_data[last_visit'.ch].payload
       /\ last_visit'.topic = m_buffered_data[last_visit'.ch].topic
       /\ upd_last' = upd_last
       /\ upd_n'[last_visit'.ch] = 0]_vars

\* The flush loop has just called publish for a channel whose data a
\* callback buffered.
C22_Witness ==
  /\ (timer_pc = "pass")
  /\ last_visit.called
  /\ last_visit.n > 0
  /\ last_visit.payload = upd_last[last_visit.ch].payload

(***************************************************************************)
(* Properties of setup_pipes, checked under SetupSpec.                     *)
(***************************************************************************)
\* C23: no step writes a routing table while a callback that reads it can
\* run, before the step and after it: pipe_data_callback reads the publish
\* tables while the pipes are open (a helper thread runs), on_mqtt_message
\* reads the subscribe tables while the I/O thread runs.
C23_TablesReadOnlyWhileReadersRun ==
  [][/\ ((pipes_open) /\ (pipes_open')) =>
          UNCHANGED <<g_publish_pipes, g_channel_to_topic>>
     /\ ((io_pc # "idle") /\ (io_pc' # "idle")) =>
          UNCHANGED <<g_subscribe_pipes, g_topic_to_pipe>>]_vars

\* The publish entries the loop has inserted so far, and the subscribe ones.
InsertedPublish ==
  {i \in DOMAIN g_config.publish_topics :
     /\ i \notin open_failed.pub
     /\ main_pc = "setup_pub" => i < setup_i}

InsertedSubscribe ==
  {i \in DOMAIN g_config.subscribe_topics :
     /\ i \notin open_failed.sub
     /\ main_pc # "setup_pub"
     /\ main_pc = "setup_sub" => i < setup_i}

\* The channel an inserted publish entry was opened on: one per entry
\* inserted before it.
PublishChannel(i) == Cardinality({j \in InsertedPublish : j < i})

\* The entries a channel of the publish table was opened for.
PublishOwners(ch) == {i \in InsertedPublish : PublishChannel(i) = ch}

\* C24: whatever the configuration repeats, every channel of the publish
\* table was opened for exactly one entry and carries that entry's topic,
\* every inserted entry has its channel in the table, and every topic of
\* the subscribe table leads to exactly one channel, one that was created.
C24_RoutingKeysUnique ==
  /\ \A ch \in DOMAIN g_channel_to_topic :
       /\ Cardinality(PublishOwners(ch)) = 1
       /\ \A i \in PublishOwners(ch) :
            g_channel_to_topic[ch] = g_config.publish_topics[i].topic
  /\ \A i \in InsertedPublish : PublishChannel(i) \in DOMAIN g_channel_to_topic
  /\ \A topic \in DOMAIN g_topic_to_pipe :
       /\ Len(on_mqtt_message(topic, 1)) = 1
       /\ on_mqtt_message(topic, 1)[1].ch < Cardinality(InsertedSubscribe)
       /\ \E i \in InsertedSubscribe : g_config.subscribe_topics[i].topic = topic
  /\ \A i \in InsertedSubscribe :
       g_config.subscribe_topics[i].topic \in DOMAIN g_topic_to_pipe

\* Setup is over for a configuration whose publish list repeats a pipe
\* name and whose subscribe list repeats a topic, and every open succeeded.
C24_Witness ==
  /\ main_pc = "connect0"
  /\ Cardinality(DOMAIN g_channel_to_topic) = 2
  /\ Cardinality(DOMAIN g_publish_pipes) = 1
  /\ Cardinality(DOMAIN g_topic_to_pipe) = 1
  /\ Cardinality(DOMAIN g_subscribe_pipes) = 2

\* The four routing tables setup_pipes builds from cfg when the opens of
\* pub_failed and sub_failed fail.
Tables(cfg, pub_failed, sub_failed) ==
  LET P == SetupPublish(cfg.publish_topics, 1, 0, NoTables, pub_failed)
      S == SetupSubscribe(cfg.subscribe_topics, 1, 0, NoTables, sub_failed)
  IN <<P.pipes, P.routes, S.pipes, S.routes>>

\* C28 as stated: the tables a run of setup has built are those of every
\* run with the same configuration, whichever opens fail in the other run.
C28_TablesFunctionOfConfiguration ==
  (main_pc = "connect0") =>
    \A pub_failed \in SUBSET DOMAIN g_config.publish_topics,
       sub_failed \in SUBSET DOMAIN g_config.subscribe_topics :
      <<g_publish_pipes, g_channel_to_topic, g_subscribe_pipes, g_topic_to_pipe>>
        = Tables(g_config, pub_failed, sub_failed)

\* C28, amended: the tables a run of setup has built are a function of the
\* configuration and of the set of opens that failed, whatever data the
\* pipes delivered during setup; an entry's channel is the number of
\* entries before it that could be opened.
C28_TablesFunctionOfConfigurationAndFailures ==
  (main_pc = "connect0") =>
    /\ <<g_publish_pipes, g_channel_to_topic, g_subscribe_pipes, g_topic_to_pipe>>
         = Tables(g_config, open_failed.pub, open_failed.sub)
    /\ \A i \in InsertedPublish :
         g_channel_to_topic[PublishChannel(i)] = g_config.publish_topics[i].topic

\* Setup has returned after the first publish open failed and the second
\* succeeded, and the opened pipe has delivered data meanwhile.
C28_Witness ==
  /\ (main_pc = "connect0")
  /\ open_failed.pub = {1}
  /\ DOMAIN g_channel_to_topic = {0}
  /\ upd_n[0] > 0

(***************************************************************************)
(* The exit status, checked under Spec.                                    *)
(***************************************************************************)
\* C29 (the part about pipe setup): when main has returned after a
\* channel could not be opened, its exit code is not 0.
C29_NonZeroExitOnSetupFailure ==
  (main_pc = "exited" /\ (open_failed.pub # {} \/ open_failed.sub # {}))
    => exit_code # 0

SectionOf(k) ==
  LET H == {h \in 1..(k - 1) : config_file[h].key \in Headers}
  IN  IF H = {} THEN "" ELSE config_file[CHOOSE h \in H : \A g \in H : g <= h].key

\* The value of the last line `key` of a topic section above line k.
LatestValue(k, key) ==
  LET F == {j \in 1..(k - 1) : config_file[j].key = key /\ SectionOf(j) \in (Headers \ {"[other]"})}
  IN  IF F = {} THEN "" ELSE config_file[CHOOSE j \in F : \A g \in F : g <= j].value

\* The qos lines read so far in the section `header` as it was last opened.
QosLines(header) ==
  {k \in 1..line_no : /\ config_file[k].key = "qos"
                      /\ SectionOf(k) = header
                      /\ \A h \in k..line_no : config_file[h].key # header}

\* The route list a section fills.
RouteList(cfg, header) ==
  IF header = "[publish_topics]" THEN cfg.publish_topics ELSE cfg.subscribe_topics

\* Line k closes a record that has a topic line and a pipe_name line of its
\* own: both stand between line k and the qos line or header above it.
OwnFields(k) ==
  \A key \in {"topic", "pipe_name"} :
    \E j \in 1..(k - 1) :
      /\ config_file[j].key = key
      /\ \A m \in j..(k - 1) : config_file[m].key \notin Headers \cup {"qos"}

\* The list is the records of the qos lines Q, in the order of the lines.
RecordsOf(list, Q) ==
  /\ Len(list) = Cardinality(Q)
  /\ \A i \in 1..Len(list) :
       LET k == CHOOSE q \in Q : Cardinality({j \in Q : j < q}) = i - 1
       IN  /\ list[i].topic = LatestValue(k, "topic")
           /\ list[i].pipe_name = LatestValue(k, "pipe_name")
           /\ stoi(config_file[k].value) = [ok |-> TRUE, val |-> list[i].qos]

\* C25: while the file is parsed, the route list of a section that was
\* opened holds exactly the records that have a topic line and a pipe_name
\* line of their own; a record that lacks one is not in the list, and the
\* records before and after it are.
C25_IncompleteRecordsSkipped ==
  main_pc = "load_config" =>
    \A header \in (Headers \ {"[other]"}) :
      (\E h \in 1..line_no : config_file[h].key = header) =>
        RecordsOf(RouteList(g_config, header), {k \in QosLines(header) : OwnFields(k)})

\* C26: a malformed value never ends the process: load_config goes on to
\* the next line and returns.
C26_MalformedValueNeverAborts ==
  main_pc # "terminated"

\* C27: while the file is parsed, the route list of a section that was
\* opened has one record for each qos line read in the section, in the
\* order of the lines, each with the topic and the pipe_name of the last
\* such lines above its qos line; and a step lengthens a route list only
\* when it reads a qos line, by one record.
C27_RecordPerQosLine ==
  /\ [](main_pc = "load_config" =>
         \A header \in (Headers \ {"[other]"}) :
           (\E h \in 1..line_no : config_file[h].key = header) =>
             RecordsOf(RouteList(g_config, header), QosLines(header)))
  /\ [][\A header \in (Headers \ {"[other]"}) :
          Len(RouteList(g_config', header)) > Len(RouteList(g_config, header)) =>
            /\ LoadConfigLine
            /\ config_file[line_no'].key = "qos"
            /\ SectionOf(line_no') = header
            /\ SubSeq(RouteList(g_config', header), 1, Len(RouteList(g_config, header)))
                 = RouteList(g_config, header)
            /\ Len(RouteList(g_config', header)) = Len(RouteList(g_config, header)) + 1]_vars

\* Three records are in the publish list, and the second took its topic
\* from a topic line above the qos line of the first.
C27_Witness ==
  /\ main_pc = "load_config"
  /\ Len(g_config.publish_topics) = 3
  /\ g_config.publish_topics[2] = TopicConfig("voxl/vio", "mavlink_ap_heartbeat", 1)
  /\ g_config.publish_topics[3] = TopicConfig("voxl/vio", "vvhub_aligned_vio", 1)

(***************************************************************************)
(* Subscriptions, checked under Spec.                                      *)
(***************************************************************************)
\* C31: a step in which the connected flag becomes TRUE issues one
\* subscribe call for every configured subscribe topic, with its QoS, and
\* each call passes the guard of subscribe; a poll issues subscribe calls
\* only when its connect callback got result 0, which leaves the flag TRUE
\* and the session established.
C31_SubscribesOnEveryConnect ==
  [][/\ (m_connected' /\ ~m_connected) =>
          requests' = {[topic |-> e.topic, qos |-> e.qos, passed |-> TRUE] :
                         e \in Range(g_config.subscribe_topics)}
     /\ (requests' # requests /\ requests' # {}) =>
          (m_connected' /\ session = "pending" /\ session' = "established")
    ]_vars

\* A reconnection: the supervisor has called connect() after it found the
\* link down, and the poll that followed made the subscribe calls.
C31_Witness ==
  /\ requests # {}
  /\ m_connected
  /\ last_connect # NoSleep

C33_CallbackUsesOwnRoute ==
  \A ch \in DOMAIN g_channel_to_topic :
    upd_n[ch] > 0 =>
      \A i \in PublishOwners(ch) :
        /\ upd_last[ch].topic = g_config.publish_topics[i].topic
        /\ upd_last[ch].qos = g_config.publish_topics[i].qos

(***************************************************************************)
(* The I/O loop, checked under Spec.                                       *)
(***************************************************************************)
\* C34: loop_forever has returned only if stop() has been called: while
\* the client runs the I/O thread is in its loop, whatever its polls
\* returned.
C34_LoopRunsWhileClientRuns ==
  io_pc = "done" => ~m_running

(***************************************************************************)
(* The timer thread and the destruction of the client, checked under Spec. *)
(***************************************************************************)
\* C35: on every path of main the timer thread is not running when the
\* client is destroyed (it was never started, or it has been joined), and
\* once PublishTimer::stop has returned in cleanup_pipes the timer thread
\* takes no step: no pass begins, goes on or ends, so publish is not
\* called.
C35_TimerJoinedBeforeClientDestroyed ==
  /\ [](~m_mosq => timer_pc = "idle")
  /\ [][(timer_pc' # timer_pc \/ PublishCalled) =>
          \/ main_pc \in {"start", "join_timer"}
          \/ m_mosq /\ main_pc \notin {"close_pub", "close_sub", "delete", "exited"}]_vars

\* A startup failure path: the initial connect() failed, cleanup_pipes
\* found no timer to stop, the client is destroyed and main has returned.
C35_Witness ==
  /\ main_pc = "exited"
  /\ exit_code = -1
  /\ ~m_mosq
  /\ timer_pc = "idle"

(***************************************************************************)
(* The keys and topics of the coalescing buffer, checked under             *)
(* TeardownSpec.                                                           *)
(***************************************************************************)
\* C36: the coalescing buffer is a map keyed by channel_id (one entry per
\* key); every key is a channel with a publish route, and the topic of the
\* entry is the topic of that channel's route.  cleanup_pipes clears the
\* routes and the buffer together, so the route an entry was written under
\* is the route the table holds for as long as the entry exists.
C36_BufferKeyedByRoutedChannel ==
  /\ DOMAIN m_buffered_data \subseteq DOMAIN g_channel_to_topic
  /\ m_buffered_data \in [DOMAIN m_buffered_data ->
                            [payload : {m_buffered_data[c].payload : c \in DOMAIN m_buffered_data},
                             topic : {g_channel_to_topic[c] : c \in DOMAIN m_buffered_data},
                             qos : QosLevels, has_data : BOOLEAN]]
  /\ \A ch \in DOMAIN m_buffered_data :
       m_buffered_data[ch].topic = g_channel_to_topic[ch]

\* Both channels hold an entry, each under its own topic; the first one
\* has been published by a flush pass and the second one has been
\* rewritten since its last flush.
C36_Witness ==
  /\ DOMAIN m_buffered_data = {0, 1}
  /\ m_buffered_data[0].topic # m_buffered_data[1].topic
  /\ ~m_buffered_data[0].has_data
  /\ upd_n[1] = MaxUpdates

(***************************************************************************)
(* What a flush pass and a buffer write leave alone, checked under         *)
(* BufferSpec.                                                             *)
(***************************************************************************)
\* C37: a step taken while a flush pass runs keeps the set of entries and
\* the topic, payload and QoS of every entry (only has_data may change);
\* and a step that writes the entry of channel c (the entry is new or
\* changed, and pending afterwards) leaves the entry of every other
\* channel as it was.
C37_FlushAndWriteFrames ==
  [][/\ (timer_pc = "pass") =>
          /\ DOMAIN m_buffered_data' = DOMAIN m_buffered_data
          /\ \A c \in DOMAIN m_buffered_data :
               /\ m_buffered_data'[c].topic = m_buffered_data[c].topic
               /\ m_buffered_data'[c].payload = m_buffered_data[c].payload
               /\ m_buffered_data'[c].qos = m_buffered_data[c].qos
     /\ \A c \in DOMAIN m_buffered_data' :
          (/\ m_buffered_data'[c].has_data
           /\ c \in DOMAIN m_buffered_data => m_buffered_data'[c] # m_buffered_data[c]) =>
            \A o \in DOMAIN m_buffered_data \ {c} :
              /\ o \in DOMAIN m_buffered_data'
              /\ m_buffered_data'[o] = m_buffered_data[o]
    ]_vars

\* A pass has just published the entry of channel 0 and cleared its flag;
\* the entry still holds what was published, and the entry of channel 1,
\* written twice since its last flush, is still pending.
C37_Witness ==
  /\ timer_pc = "pass"
  /\ last_visit.ch = 0 /\ last_visit.called
  /\ DOMAIN m_buffered_data = {0, 1}
  /\ m_buffered_data[0] = BufferedData(last_visit.payload, last_visit.topic,
                                        last_visit.qos, FALSE)
  /\ m_buffered_data[1].has_data
  /\ upd_n[1] = MaxUpdates

(***************************************************************************)
(* The topics on_mqtt_connect subscribes to, checked under Spec.           *)
(***************************************************************************)
\* C38: every subscribe call made by on_mqtt_connect names a topic that has
\* a route in the subscribe routing table (the topic maps to a pipe whose
\* channel was opened), so a configured subscribe topic whose channel
\* failed to open is not subscribed.
C38_SubscribesOnlyRoutedTopics ==
  [][requests' # requests => \A r \in requests' : Routed(r.topic)]_vars

(***************************************************************************)
(* The fields of an appended record, checked under ConfigSpec.             *)
(***************************************************************************)
\* C39: when load_config appends a record at a qos line, the topic and the
\* pipe_name of the record are the latest values given by lines since the
\* previous record was appended (since the start of the file for the first
\* record), and are empty if no such line gave the field: nothing carries
\* over from an earlier record.
C39_RecordHoldsOwnValuesOnly ==
  [][\A header \in (Headers \ {"[other]"}) :
       Len(RouteList(g_config', header)) > Len(RouteList(g_config, header)) =>
         LET k   == line_no'
             rec == RouteList(g_config', header)[Len(RouteList(g_config', header))]
             P   == {q \in 1..(k - 1) : /\ config_file[q].key = "qos"
                                        /\ SectionOf(q) \in (Headers \ {"[other]"})}
             p   == IF P = {} THEN 0 ELSE CHOOSE q \in P : \A g \in P : g <= q
             Given(key) == {j \in (p + 1)..(k - 1) :
                              /\ config_file[j].key = key
                              /\ SectionOf(j) \in (Headers \ {"[other]"})}
             Val(key) == IF Given(key) = {} THEN ""
                         ELSE config_file[CHOOSE j \in Given(key) :
                                            \A g \in Given(key) : g <= j].value
         IN  /\ rec.topic = Val("topic")
             /\ rec.pipe_name = Val("pipe_name")]_vars

(***************************************************************************)
(* Termination after a signal, checked under FairSignalSpec.               *)
(***************************************************************************)
\* C40: once signal_handler has run for a SIGINT or SIGTERM (it has stored
\* 0 into main_running), main eventually returns: the supervisor loop
\* exits, both threads are joined and the process terminates.
C40_SignalLeadsToExit == signalled ~> (main_pc = "exited")
====
